---- MODULE Spec2Model ----
(***************************************************************************)
(* A model of the event pipeline of blink (package pkg/blink): the event   *)
(* filter, the SSE, WebSocket and composite streamers and the webhook      *)
(* manager.  Each component has its own specification over the shared      *)
(* variables; a component's actions leave the other components unchanged.  *)
(*                                                                         *)
(* Strings that the code inspects character by character (paths, glob      *)
(* patterns) are sequences of one-character strings.  An fsnotify.Op bit   *)
(* set is a set of operation names: op&x != 0 is x \in op.                 *)
(***************************************************************************)
EXTENDS Integers, Sequences, FiniteSets, TLC

VARIABLES
    filter,        \* the *EventFilter shared by the pipeline, or NoFilter (nil)
    fLast          \* the last ShouldProcessEvent call on the filter as it is now:
                   \* its event, isDir and result (NoCall after a reconfiguration)

VARIABLES
    now,           \* the wall clock read by time.Now(), in ticks
    sseEvents,     \* SSEStreamer.events: TimeEventMap, arrival time -> Event
    sseOpen,       \* an SSE connection is being served by handleSSE
    sseId,         \* handleSSE's id counter of that connection
    sseWritten     \* the frames the latest refresh cycle wrote to the connection

VARIABLES
    wsStarted,     \* WebSocketStreamer.started
    wsClients,     \* WebSocketStreamer.clients: client id -> SendChan contents
    wsSend,        \* the Send call in progress: where it is in its loop
    wsLast,        \* what the Send call that returned last did (until the next call)
    wsFatal        \* the runtime stopped the process (concurrent map access)

VARIABLES
    mStarted,      \* MultiStreamer's adapters whose Start has been called
    mStopped,      \* ... whose Stop has been called
    mReceived,     \* ... whose Send has been called
    mLast          \* the last MultiStreamer call: which adapters it invoked,
                   \* which of them failed, and what it returned

VARIABLES
    whGiven,       \* the WebhookConfig passed to NewWebhookManager
    whConfig,      \* WebhookManager.Config: the config after the defaults
    recentEvents,  \* WebhookManager.recentEvents: path -> time last accepted
    eventChan,     \* WebhookManager.eventChan
    whJobs,        \* the sendWebhook calls, in the order they were started
    whSeen         \* the events taken by processEvents, each with its time
                   \* and whether shouldDebounce suppressed it

VARIABLES
    bEvents,    \* EventBatcher.events: the pending slice
    bTimers,    \* processEvents goroutines that are in time.Sleep
    bStarting,  \* AddBatch calls between Unlock and "go b.processEvents()"
    bSending,   \* batches taken by processEvents, each blocked on eventChan
    bOut,       \* the batches received from Events(), in order of receipt
    bAdded,     \* the number of events handed to Add and AddBatch so far
    bChan       \* EventBatcher.eventChan: "open", "closed", or the panic

VARIABLES
    fsScope,       \* the paths under the root that the environment touches
    fs,            \* the paths under the root that exist
    native,        \* the paths fsnotify holds a native watch for
    nativeEvents,  \* fsnotify's Events channel
    wRecursive,    \* WatcherConfig.Recursive
    directories,   \* Watcher.directories
    watches,       \* Watcher.watches
    wStarted,      \* Start has run, watchLoop is running
    wScheduled,    \* how many events scheduleHandler has been called with
    wEvents,       \* Watcher.events: the pending slice
    wTimers,       \* scheduleHandler goroutines that are in time.Sleep
    wSending,      \* batches taken from the slice, each blocked on eventChan
    wOut,          \* the batches received from Events(), in order of receipt
    wFsOps,        \* how many changes the environment has made
    wFailuresLeft, \* how many more times watcher.Add fails
    wFresh,        \* files created since their directory got its native watch
    loopTodo,      \* EventServer's loop: the rest of the batch it works on
    loopPc         \* EventServer's loop: "recv", "next" or "send"

VARIABLES
    srv,    \* EventServer and what it runs, one of them per specification:
            \* its setup and listeners, its loop's calls, the WebSocket
            \* clients' channels, the watcher's control channels
    rw      \* NewRecursiveWatcher: the worker pool and the Folders channel

fVars   == <<filter, fLast>>
xVars   == <<srv, rw>>
wVars   == <<fsScope, fs, native, nativeEvents, wRecursive, directories,
             watches, wStarted, wScheduled, wEvents, wTimers, wSending, wOut,
             wFsOps, wFailuresLeft, wFresh, loopTodo, loopPc>>
bVars   == <<bEvents, bTimers, bStarting, bSending, bOut, bAdded, bChan>>
whVars  == <<whGiven, whConfig, recentEvents, eventChan, whJobs, whSeen>>
mVars   == <<mStarted, mStopped, mReceived, mLast>>
sseVars == <<sseEvents, sseOpen, sseId, sseWritten>>
wsVars  == <<wsStarted, wsClients, wsSend, wsLast, wsFatal>>

vars == <<filter, fLast, now, sseEvents, sseOpen, sseId, sseWritten,
          wsStarted, wsClients, wsSend, wsLast, wsFatal,
          mStarted, mStopped, mReceived, mLast,
          whGiven, whConfig, recentEvents, eventChan, whJobs, whSeen,
          bEvents, bTimers, bStarting, bSending, bOut, bAdded, bChan,
          fsScope, fs, native, nativeEvents, wRecursive, directories,
          watches, wStarted, wScheduled, wEvents, wTimers, wSending, wOut,
          wFsOps, wFailuresLeft, wFresh, loopTodo, loopPc, srv, rw>>

\* what the actions of one component leave alone
FilterOnly  == UNCHANGED <<now, sseVars, wsVars, mVars, whVars, bVars, wVars, xVars>>
SSEOnly     == UNCHANGED <<fLast, wsVars, mVars, whVars, bVars, wVars, xVars>>
WSOnly      == UNCHANGED <<fLast, sseVars, mVars, whVars, bVars, wVars, xVars>>
MultiOnly   == UNCHANGED <<now, filter, fLast, sseVars, wsVars, whVars, bVars, wVars, xVars>>
WebhookOnly == UNCHANGED <<now, filter, fLast, sseVars, wsVars, mVars, bVars, wVars, xVars>>
BatcherOnly == UNCHANGED <<now, filter, fLast, sseVars, wsVars, mVars, whVars, wVars, xVars>>
WatcherOnly == UNCHANGED <<now, filter, fLast, sseVars, wsVars, mVars, whVars, bVars, xVars>>
ServerOnly  == UNCHANGED <<now, filter, fLast, sseVars, wsVars, mVars, whVars, bVars, wVars, rw>>
PoolOnly    == UNCHANGED <<now, filter, fLast, sseVars, wsVars, mVars, whVars, bVars, wVars, srv>>

----------------------------------------------------------------------------
(* fsnotify.Op bits *)
Create == "Create"
Write  == "Write"
Remove == "Remove"
Rename == "Rename"
Chmod  == "Chmod"
AllOps == {Create, Write, Remove, Rename, Chmod}

NoFilter == [isNil |-> TRUE]
NoCall   == [called |-> FALSE]

----------------------------------------------------------------------------
(* String helpers: the standard-library calls the filter makes. *)

Drop(s, n) == SubSeq(s, n + 1, Len(s))
Take(s, n) == SubSeq(s, 1, n)

\* t occurs in s starting at 0-based offset i
OccursAt(s, t, i) ==
    /\ i + Len(t) <= Len(s)
    /\ \A k \in 1..Len(t) : s[i + k] = t[k]

\* strings.Index: the 0-based offset of the first occurrence, or -1
Index(s, t) ==
    IF \E i \in 0..Len(s) : OccursAt(s, t, i)
    THEN CHOOSE i \in 0..Len(s) :
            /\ OccursAt(s, t, i)
            /\ \A j \in 0..(i - 1) : ~OccursAt(s, t, j)
    ELSE -1

\* strings.Contains
Contains(s, t) == Index(s, t) # -1

\* strings.HasPrefix, strings.HasSuffix
HasPrefix(s, t) == Len(t) <= Len(s) /\ Take(s, Len(t)) = t
HasSuffix(s, t) == Len(t) <= Len(s) /\ Drop(s, Len(s) - Len(t)) = t

\* strings.Split with a non-empty separator
RECURSIVE SplitOn(_, _)
SplitOn(s, sep) ==
    LET i == Index(s, sep)
    IN  IF i = -1 THEN <<s>>
        ELSE <<Take(s, i)>> \o SplitOn(Drop(s, i + Len(sep)), sep)

\* strings.TrimSpace
RECURSIVE TrimLeft(_)
TrimLeft(s) == IF s # <<>> /\ Head(s) = " " THEN TrimLeft(Tail(s)) ELSE s
RECURSIVE TrimRight(_)
TrimRight(s) ==
    IF s # <<>> /\ s[Len(s)] = " " THEN TrimRight(Take(s, Len(s) - 1)) ELSE s
TrimSpace(s) == TrimRight(TrimLeft(s))

\* filepath.Base on a slash-separated path
RECURSIVE StripTrailingSlashes(_)
StripTrailingSlashes(s) ==
    IF s # <<>> /\ s[Len(s)] = "/"
    THEN StripTrailingSlashes(Take(s, Len(s) - 1)) ELSE s
RECURSIVE AfterLastSlash(_)
AfterLastSlash(s) ==
    LET i == Index(s, <<"/">>)
    IN  IF i = -1 THEN s ELSE AfterLastSlash(Drop(s, i + 1))
Base(path) ==
    IF path = <<>> THEN <<".">>
    ELSE LET p == StripTrailingSlashes(path)
         IN  IF p = <<>> THEN <<"/">> ELSE AfterLastSlash(p)

\* filepath.Match for patterns made of literal characters and '*':
\* '*' matches any run of non-separator characters, and the whole name
\* must be matched.
RECURSIVE Match(_, _)
Match(pattern, name) ==
    IF pattern = <<>> THEN name = <<>>
    ELSE IF Head(pattern) = "*"
    THEN \E k \in 0..Len(name) :
            /\ \A j \in 1..k : name[j] # "/"
            /\ Match(Tail(pattern), Drop(name, k))
    ELSE /\ name # <<>>
         /\ Head(name) = Head(pattern)
         /\ Match(Tail(pattern), Tail(name))

----------------------------------------------------------------------------
(* EventFilter: event_filter.go *)

\* NewEventFilter
NewEventFilter ==
    [ includePatterns |-> <<>>, excludePatterns |-> <<>>,
      includeEvents |-> {}, ignoreEvents |-> {}, customFilters |-> <<>> ]

\* parsePatterns: the loop body for one comma-separated piece
ParseOnePattern(piece) ==
    LET p == TrimSpace(piece)
    IN  IF p = <<>> THEN <<>>
        ELSE IF HasPrefix(p, <<"*", "*", "/">>) /\ ~HasPrefix(p, <<"*", "*", "/", "*">>)
        THEN <<p, Drop(p, 3)>>
        ELSE IF HasSuffix(p, <<"/", "*", "*">>) /\ ~HasSuffix(p, <<"/", "*", "*", "/", "*">>)
        THEN <<p, p \o <<"/", "*">> >>
        ELSE <<p>>

RECURSIVE ParsePieces(_)
ParsePieces(pieces) ==
    IF pieces = <<>> THEN <<>>
    ELSE ParseOnePattern(Head(pieces)) \o ParsePieces(Tail(pieces))

parsePatterns(patterns) ==
    IF patterns = <<>> THEN <<>>
    ELSE ParsePieces(SplitOn(patterns, <<",">>))

\* strings.ToLower on the event names the inputs use
ToLower(e) ==
    CASE e = "Create" -> "create"
      [] e = "WRITE"  -> "write"
      [] OTHER        -> e

\* parseEvents: the list is the input already split on "," and trimmed
RECURSIVE parseEvents(_)
parseEvents(eventList) ==
    IF eventList = <<>> THEN {}
    ELSE LET e == ToLower(Head(eventList))
             rest == parseEvents(Tail(eventList))
         IN  CASE e = "create" -> rest \cup {Create}
               [] e = "write"  -> rest \cup {Write}
               [] e = "remove" -> rest \cup {Remove}
               [] e = "rename" -> rest \cup {Rename}
               [] e = "chmod"  -> rest \cup {Chmod}
               [] OTHER        -> rest

\* The "**" branch: every non-empty fragment occurs in the path, in order
RECURSIVE DoubleStarPartsMatch(_, _, _)
DoubleStarPartsMatch(parts, normalizedPath, lastIndex) ==
    IF parts = <<>> THEN TRUE
    ELSE IF Head(parts) = <<>>
    THEN DoubleStarPartsMatch(Tail(parts), normalizedPath, lastIndex)
    ELSE LET index == Index(Drop(normalizedPath, lastIndex), Head(parts))
         IN  IF index = -1 THEN FALSE
             ELSE DoubleStarPartsMatch(Tail(parts), normalizedPath,
                                       lastIndex + index + Len(Head(parts)))

\* One pattern against a path: the body of the exclude loop and of the
\* include loop of ShouldIncludePath (the two bodies are the same tests).
PatternMatches(pattern, normalizedPath, baseName) ==
    \/ Match(pattern, baseName)
    \/ /\ Contains(pattern, <<"*", "*">>)
       /\ DoubleStarPartsMatch(SplitOn(pattern, <<"*", "*">>), normalizedPath, 0)
    \/ /\ Contains(pattern, <<"*">>)
       /\ \/ Match(pattern, normalizedPath)
          \/ LET pathParts == SplitOn(normalizedPath, <<"/">>)
             IN  \E i \in 1..Len(pathParts) : Match(pattern, pathParts[i])
    \/ /\ ~Contains(pattern, <<"*">>)
       /\ Contains(normalizedPath, pattern)

AnyPatternMatches(patterns, path) ==
    \E i \in 1..Len(patterns) : PatternMatches(patterns[i], path, Base(path))

\* Fault variant of ShouldIncludePath: the include patterns are tried first
ShouldIncludePath_includeFirst(f, path) ==
    \/ Len(f.includePatterns) > 0 /\ AnyPatternMatches(f.includePatterns, path)
    \/ /\ ~AnyPatternMatches(f.excludePatterns, path)
       /\ Len(f.includePatterns) = 0

\* Fault variant of ShouldIncludePath: an empty include list includes nothing
ShouldIncludePath_noIncludeAll(f, path) ==
    /\ ~AnyPatternMatches(f.excludePatterns, path)
    /\ AnyPatternMatches(f.includePatterns, path)

\* ShouldIncludePath (filepath.ToSlash leaves a slash-separated path as it is)
ShouldIncludePath(f, path) ==
    LET includeAll == Len(f.includePatterns) = 0
    IN  IF AnyPatternMatches(f.excludePatterns, path) THEN FALSE
        ELSE IF includeAll THEN TRUE
        ELSE AnyPatternMatches(f.includePatterns, path)

\* A custom predicate (path, isDir) -> bool; "nil" is a nil entry of the list
ApplyCustomFilter(cf, path, isDir) ==
    CASE cf = "acceptAll"  -> TRUE
      [] cf = "rejectDirs" -> ~isDir
      [] cf = "rejectDot"  -> ~Contains(path, <<".">>)
      [] OTHER             -> TRUE

\* The custom-filter loop of ShouldProcessEvent, in registration order
RECURSIVE CustomFiltersPass(_, _, _)
CustomFiltersPass(customFilters, path, isDir) ==
    IF customFilters = <<>> THEN TRUE
    ELSE IF Head(customFilters) # "nil" /\ ~ApplyCustomFilter(Head(customFilters), path, isDir)
    THEN FALSE
    ELSE CustomFiltersPass(Tail(customFilters), path, isDir)

\* Fault variant of the operation gate: the include set is tried first
OperationGate_includeFirst(f, op) ==
    IF f.includeEvents # {} /\ op \cap f.includeEvents # {} THEN TRUE
    ELSE IF op \cap f.ignoreEvents # {} THEN FALSE
    ELSE f.includeEvents = {}

\* The event-type checks of ShouldProcessEvent
OperationGate(f, op) ==
    IF f.ignoreEvents # {} /\ op \cap f.ignoreEvents # {} THEN FALSE
    ELSE IF f.includeEvents # {} THEN op \cap f.includeEvents # {}
    ELSE TRUE

\* ShouldProcessEvent; isDir is what os.Stat reports for the path
ShouldProcessEvent(f, ev, isDir) ==
    IF ~CustomFiltersPass(f.customFilters, ev.Name, isDir) THEN FALSE
    ELSE IF ~ShouldIncludePath(f, ev.Name) THEN FALSE
    ELSE OperationGate(f, ev.Op)

----------------------------------------------------------------------------
(* Inputs of the filter specification *)

MaxCustomFilters == 1

RawPatternInputs ==
    { <<>>,
      <<"*", ".", "j">>,
      <<" ", "n", ",", "*", ".", "c">>,
      <<"*", "*", "/", "s">>,
      <<"n", "/", "*", "*">> }

EventListInputs ==
    { <<>>, <<"Create">>, <<"WRITE", "remove", "bogus">> }

CustomFilterInputs == {"nil", "rejectDirs", "rejectDot"}

FilterPaths ==
    { <<"a", ".", "j">>,
      <<"s", "/", "a", ".", "j">>,
      <<"n", "/", "a", ".", "j">>,
      <<"s", "/", "n", "/", "b">> }

FilterOps == { {Create}, {Create, Write}, {Remove}, {Chmod} }

----------------------------------------------------------------------------
(* Actions of the filter *)

SetIncludePatterns ==
    /\ \E raw \in RawPatternInputs :
          filter' = [filter EXCEPT !.includePatterns = parsePatterns(raw)]
    /\ fLast' = NoCall
    /\ FilterOnly

SetExcludePatterns ==
    /\ \E raw \in RawPatternInputs :
          filter' = [filter EXCEPT !.excludePatterns = parsePatterns(raw)]
    /\ fLast' = NoCall
    /\ FilterOnly

SetIncludeEvents ==
    /\ \E l \in EventListInputs :
          filter' = [filter EXCEPT !.includeEvents = parseEvents(l)]
    /\ fLast' = NoCall
    /\ FilterOnly

SetIgnoreEvents ==
    /\ \E l \in EventListInputs :
          filter' = [filter EXCEPT !.ignoreEvents = parseEvents(l)]
    /\ fLast' = NoCall
    /\ FilterOnly

AddCustomFilter ==
    /\ Len(filter.customFilters) < MaxCustomFilters
    /\ \E cf \in CustomFilterInputs :
          filter' = [filter EXCEPT !.customFilters = Append(@, cf)]
    /\ fLast' = NoCall
    /\ FilterOnly

CallShouldProcessEvent ==
    /\ \E path \in FilterPaths, op \in FilterOps, isDir \in BOOLEAN :
          LET ev == [Name |-> path, Op |-> op]
          IN  fLast' = [ called |-> TRUE, event |-> ev, isDir |-> isDir,
                         result |-> ShouldProcessEvent(filter, ev, isDir) ]
    /\ UNCHANGED filter
    /\ FilterOnly

----------------------------------------------------------------------------
(* SSEStreamer: the pending-event map and the refresh cycle of handleSSE *)

\* One tick of the clock is five RefreshDurations, so the maxAge that Send
\* and handleSSE pass to RemoveOldEvents, RefreshDuration*10, is two ticks.
MaxAge == 2

MaxClock   == 3      \* the clock stops here
MaxPending == 3      \* Send is not called with this many events pending
MaxFrames  == 4      \* no refresh cycle starts once the id counter is here

StreamPaths == { <<"a">>, <<"b">> }
SSEOps      == { {Write}, {Chmod} }

\* The filters a streamer is built with: none, or one ignoring chmod
StreamFilters ==
    { NoFilter, [NewEventFilter EXCEPT !.ignoreEvents = {Chmod}] }

\* opts.Filter != nil && !opts.Filter.ShouldProcessEvent(event)
\* (the stream paths are files: os.Stat reports no directory)
FilteredOut(f, ev) == f # NoFilter /\ ~ShouldProcessEvent(f, ev, FALSE)

\* Fault variant of RemoveOldEvents: nothing is deleted
RemoveOldEvents_keepsAll(events, maxAge, clock) == events

\* Fault variant of RemoveOldEvents: an entry exactly maxAge old goes too
RemoveOldEvents_inclusive(events, maxAge, clock) ==
    LET longTimeAgo == clock - maxAge
        kept == { t \in DOMAIN events : ~(t <= longTimeAgo) }
    IN  [ t \in kept |-> events[t] ]

\* RemoveOldEvents: drop the entries before now - maxAge
RemoveOldEvents(events, maxAge, clock) ==
    LET longTimeAgo == clock - maxAge
        kept == { t \in DOMAIN events : ~(t < longTimeAgo) }
    IN  [ t \in kept |-> events[t] ]

\* sort.Sort(keys): the keys of the map in ascending order
RECURSIVE SortedKeys(_)
SortedKeys(keys) ==
    IF keys = {} THEN << >>
    ELSE LET least == CHOOSE t \in keys : \A u \in keys : t <= u
         IN  <<least>> \o SortedKeys(keys \ {least})

\* The loop of handleSSE over the sorted keys: skip filtered events, write
\* an event whose name differs from prevname, remember it as prevname.
\* A frame is noted with the key of the map entry it was written for.
RECURSIVE WriteLoop(_, _, _, _, _)
WriteLoop(keys, events, f, prevname, id) ==
    IF keys = << >> THEN [ frames |-> << >>, id |-> id ]
    ELSE LET ev == events[Head(keys)]
         IN  IF FilteredOut(f, ev)
             THEN WriteLoop(Tail(keys), events, f, prevname, id)
             ELSE IF ev.Name # prevname
             THEN LET rest == WriteLoop(Tail(keys), events, f, ev.Name, id + 1)
                  IN  [ frames |-> << [id |-> id, data |-> ev.Name,
                                       key |-> Head(keys)] >> \o rest.frames,
                        id |-> rest.id ]
             ELSE WriteLoop(Tail(keys), events, f, prevname, id)

\* time passes
Tick ==
    /\ now < MaxClock
    /\ now' = now + 1
    /\ UNCHANGED <<filter, fLast, sseVars, wsVars, mVars, whVars, bVars, wVars, xVars>>

\* SSEStreamer.Send: store the event under the current time, then purge
SSESend ==
    /\ Cardinality(DOMAIN sseEvents) < MaxPending
    /\ \E path \in StreamPaths, op \in SSEOps :
          LET ev == [Name |-> path, Op |-> op]
              stored == [ t \in DOMAIN sseEvents \cup {now} |->
                            IF t = now THEN ev ELSE sseEvents[t] ]
          IN  sseEvents' = RemoveOldEvents(stored, MaxAge, now)
    /\ UNCHANGED <<now, filter, sseOpen, sseId, sseWritten>>
    /\ SSEOnly

\* a client connects: handleSSE starts with id 0
SSEConnect ==
    /\ ~sseOpen
    /\ sseOpen' = TRUE
    /\ sseId' = 0
    /\ sseWritten' = << >>
    /\ UNCHANGED <<now, filter, sseEvents>>
    /\ SSEOnly

\* One refresh cycle of handleSSE, under the mutex
SSERefresh ==
    /\ sseOpen
    /\ sseId < MaxFrames
    /\ IF Cardinality(DOMAIN sseEvents) > 0
       THEN LET kept == RemoveOldEvents(sseEvents, MaxAge, now)
                out  == WriteLoop(SortedKeys(DOMAIN kept), kept, filter, << >>, sseId)
            IN  /\ sseEvents' = kept
                /\ sseWritten' = out.frames
                /\ sseId' = out.id
       ELSE /\ sseWritten' = << >>
            /\ UNCHANGED <<sseEvents, sseId>>
    /\ UNCHANGED <<now, filter, sseOpen>>
    /\ SSEOnly

----------------------------------------------------------------------------
(* WebSocketStreamer: the client registry and Send *)

SendChanCap == 2     \* capacity of a client's SendChan (256 in the code)

ClientIds == {"c1", "c2"}

\* the events Send is called with
WSEvents ==
    { [Name |-> <<"a">>, Op |-> {Write}],
      [Name |-> <<"b">>, Op |-> {Create, Write}],
      [Name |-> <<"a">>, Op |-> {Chmod}] }

\* eventOpToString: a switch on the value of the whole bit set
eventOpToString(op) ==
    CASE op = {Create} -> "create"
      [] op = {Write}  -> "write"
      [] op = {Remove} -> "remove"
      [] op = {Rename} -> "rename"
      [] op = {Chmod}  -> "chmod"
      [] OTHER         -> ""

\* The message Send marshals to JSON: an object with these four members
WSMessage(ev, clock) ==
    [ type |-> "event", timestamp |-> clock,
      path |-> ev.Name, operation |-> eventOpToString(ev.Op) ]

NoSend == [ pc |-> "idle" ]
NoLast == [ called |-> FALSE ]

\* select { case client.SendChan <- data: default: }: the channel after it
TrySend(chan, data) ==
    IF Len(chan) < SendChanCap THEN Append(chan, data) ELSE chan

\* WebSocketStreamer.Start
WSStart ==
    /\ ~wsFatal
    /\ ~wsStarted
    /\ wsStarted' = TRUE
    /\ UNCHANGED <<now, filter, wsClients, wsSend, wsLast, wsFatal>>
    /\ WSOnly

\* handleWebSocket: a new client is registered under clientsMu, which Send
\* does not hold.  Registered while Send iterates over the map, the new
\* entry is visited by that iteration or not, or the runtime detects the
\* concurrent access and stops the process.
WSRegister(ids) ==
    /\ ~wsFatal
    /\ wsStarted
    /\ \E c \in ids \ DOMAIN wsClients :
          \/ /\ wsClients' = [ d \in DOMAIN wsClients \cup {c} |->
                                 IF d = c THEN << >> ELSE wsClients[d] ]
             /\ \/ UNCHANGED wsSend
                \/ /\ wsSend.pc = "iter"
                   /\ wsSend' = [wsSend EXCEPT !.todo = @ \cup {c}]
             /\ UNCHANGED wsFatal
          \/ /\ wsSend.pc = "iter"
             /\ wsFatal' = TRUE
             /\ UNCHANGED <<wsClients, wsSend>>
    /\ UNCHANGED <<now, filter, wsStarted, wsLast>>

WSHandleWebSocket ==
    /\ WSRegister(ClientIds)
    /\ WSOnly

\* Send(ev), up to the loop: the filter, the message, RLock, the map iterator
WSSendCall(ev) ==
    /\ ~wsFatal
    /\ wsSend.pc = "idle"
    /\ IF FilteredOut(filter, ev)
       THEN /\ wsLast' = [ called |-> TRUE, filtered |-> TRUE, event |-> ev,
                           err |-> "nil" ]
            /\ UNCHANGED wsSend
       ELSE /\ wsSend' = [ pc |-> "iter", event |-> ev,
                           data |-> WSMessage(ev, now),
                           atStart |-> DOMAIN wsClients,
                           todo |-> DOMAIN wsClients,
                           sent |-> {}, dropped |-> {} ]
            /\ wsLast' = NoLast
    /\ UNCHANGED <<now, filter, wsStarted, wsClients, wsFatal>>

\* Send called by a caller of its own
WSSendBegin ==
    /\ \E ev \in WSEvents : WSSendCall(ev)
    /\ WSOnly

\* Fault variant of the loop body: a full channel ends the call with an error
WSSendToClient_failOnFull ==
    /\ ~wsFatal
    /\ wsSend.pc = "iter"
    /\ \E c \in wsSend.todo :
          IF Len(wsClients[c]) < SendChanCap
          THEN /\ wsClients' = [wsClients EXCEPT ![c] = Append(@, wsSend.data)]
               /\ wsSend' = [wsSend EXCEPT !.todo = @ \ {c}, !.sent = @ \cup {c}]
               /\ UNCHANGED wsLast
          ELSE /\ wsLast' = [ called |-> TRUE, filtered |-> FALSE,
                              event |-> wsSend.event, data |-> wsSend.data,
                              atStart |-> wsSend.atStart, sent |-> wsSend.sent,
                              dropped |-> wsSend.dropped \cup {c}, err |-> "send buffer full" ]
               /\ wsSend' = NoSend
               /\ UNCHANGED wsClients
    /\ UNCHANGED <<now, filter, wsStarted, wsFatal>>
    /\ WSOnly

\* One iteration of Send's loop: the non-blocking send to one client
WSSendToClient ==
    /\ ~wsFatal
    /\ wsSend.pc = "iter"
    /\ \E c \in wsSend.todo :
          /\ wsClients' = [wsClients EXCEPT ![c] = TrySend(@, wsSend.data)]
          /\ wsSend' = IF Len(wsClients[c]) < SendChanCap
                       THEN [wsSend EXCEPT !.todo = @ \ {c}, !.sent = @ \cup {c}]
                       ELSE [wsSend EXCEPT !.todo = @ \ {c}, !.dropped = @ \cup {c}]
    /\ UNCHANGED <<now, filter, wsStarted, wsLast, wsFatal>>
    /\ WSOnly

\* The loop is over: RUnlock, return nil
WSSendEnd ==
    /\ ~wsFatal
    /\ wsSend.pc = "iter"
    /\ wsSend.todo = {}
    /\ wsLast' = [ called |-> TRUE, filtered |-> FALSE,
                   event |-> wsSend.event, data |-> wsSend.data,
                   atStart |-> wsSend.atStart, sent |-> wsSend.sent,
                   dropped |-> wsSend.dropped, err |-> "nil" ]
    /\ wsSend' = NoSend
    /\ UNCHANGED <<now, filter, wsStarted, wsClients, wsFatal>>
    /\ WSOnly

\* writeLoop: take the next message off the client's SendChan and write it
WSWriteLoop ==
    /\ ~wsFatal
    /\ \E c \in DOMAIN wsClients :
          /\ wsClients[c] # << >>
          /\ wsClients' = [wsClients EXCEPT ![c] = Tail(@)]
    /\ UNCHANGED <<now, filter, wsStarted, wsSend, wsLast, wsFatal>>
    /\ WSOnly

\* readLoop ends (the client went away): delete the client under mutex.Lock,
\* which waits for a Send holding RLock
WSReadLoopExit ==
    /\ ~wsFatal
    /\ wsSend.pc = "idle"
    /\ \E c \in DOMAIN wsClients :
          wsClients' = [ d \in DOMAIN wsClients \ {c} |-> wsClients[d] ]
    /\ UNCHANGED <<now, filter, wsStarted, wsSend, wsLast, wsFatal>>
    /\ WSOnly

\* Stop, under mutex.Lock: close every client, empty the registry
WSStop ==
    /\ ~wsFatal
    /\ wsSend.pc = "idle"
    /\ wsStarted
    /\ wsClients' = << >>
    /\ wsStarted' = FALSE
    /\ UNCHANGED <<now, filter, wsSend, wsLast, wsFatal>>
    /\ WSOnly

----------------------------------------------------------------------------
(* MultiStreamer: Start, Stop and Send over the ordered list of adapters *)

NumStreamers == 3    \* length of MultiStreamer.streamers

\* The adapters are numbered in list order.  An adapter's call returns nil,
\* written Nil, or an error of its own, written as the adapter's number.
Nil == 0
Streamers == [ i \in 1..NumStreamers |-> i ]

\* Start's loop: return the first error
RECURSIVE MultiStartLoop(_, _, _)
MultiStartLoop(streamers, failing, invoked) ==
    IF streamers = << >> THEN [ invoked |-> invoked, err |-> Nil ]
    ELSE LET st == Head(streamers)
         IN  IF st \in failing
             THEN [ invoked |-> Append(invoked, st), err |-> st ]
             ELSE MultiStartLoop(Tail(streamers), failing, Append(invoked, st))

\* Fault variant of Stop's loop: the first error is kept
RECURSIVE MultiStopLoop_keepFirst(_, _, _, _)
MultiStopLoop_keepFirst(streamers, failing, invoked, lastErr) ==
    IF streamers = << >> THEN [ invoked |-> invoked, err |-> lastErr ]
    ELSE LET st == Head(streamers)
         IN  MultiStopLoop_keepFirst(Tail(streamers), failing, Append(invoked, st),
                           IF st \in failing /\ lastErr = Nil THEN st ELSE lastErr)

\* Stop's loop: call every adapter, remember the latest error
RECURSIVE MultiStopLoop(_, _, _, _)
MultiStopLoop(streamers, failing, invoked, lastErr) ==
    IF streamers = << >> THEN [ invoked |-> invoked, err |-> lastErr ]
    ELSE LET st == Head(streamers)
         IN  MultiStopLoop(Tail(streamers), failing, Append(invoked, st),
                           IF st \in failing THEN st ELSE lastErr)

\* Send's loop: call every adapter, remember the latest error
RECURSIVE MultiSendLoop(_, _, _, _)
MultiSendLoop(streamers, failing, invoked, lastErr) ==
    IF streamers = << >> THEN [ invoked |-> invoked, err |-> lastErr ]
    ELSE LET st == Head(streamers)
         IN  MultiSendLoop(Tail(streamers), failing, Append(invoked, st),
                           IF st \in failing THEN st ELSE lastErr)

Range(seq) == { seq[i] : i \in 1..Len(seq) }

NoMultiCall == [ called |-> FALSE ]

\* MultiStreamer.Start; failing: the adapters whose Start would return an error
MultiStart ==
    /\ \E failing \in SUBSET (1..NumStreamers) :
          LET r == MultiStartLoop(Streamers, failing, << >>)
          IN  /\ mStarted' = mStarted \cup Range(r.invoked)
              /\ mLast' = [ called |-> TRUE, call |-> "Start", failing |-> failing,
                            invoked |-> r.invoked, err |-> r.err ]
    /\ UNCHANGED <<mStopped, mReceived>>
    /\ MultiOnly

\* MultiStreamer.Stop
MultiStop ==
    /\ \E failing \in SUBSET (1..NumStreamers) :
          LET r == MultiStopLoop(Streamers, failing, << >>, Nil)
          IN  /\ mStopped' = mStopped \cup Range(r.invoked)
              /\ mLast' = [ called |-> TRUE, call |-> "Stop", failing |-> failing,
                            invoked |-> r.invoked, err |-> r.err ]
    /\ UNCHANGED <<mStarted, mReceived>>
    /\ MultiOnly

\* MultiStreamer.Send
MultiSend ==
    /\ \E failing \in SUBSET (1..NumStreamers) :
          LET r == MultiSendLoop(Streamers, failing, << >>, Nil)
          IN  /\ mReceived' = mReceived \cup Range(r.invoked)
              /\ mLast' = [ called |-> TRUE, call |-> "Send", failing |-> failing,
                            invoked |-> r.invoked, err |-> r.err ]
    /\ UNCHANGED <<mStarted, mStopped>>
    /\ MultiOnly

----------------------------------------------------------------------------
(* WebhookManager.  One tick of the clock is 50ms. *)

DefaultDebounceDuration == 2     \* 100 * time.Millisecond
DefaultMaxRetries       == 3
CleanupFactor           == 10    \* entries older than DebounceDuration*10 go
TicksPerSecond          == 20

EventChanCap == 1    \* capacity of eventChan (100 in the code)
MaxHandled   == 2    \* HandleEvent is called at most this many times

\* the configurations NewWebhookManager is called with
GivenURLs      == {"", "http://hook"}
GivenDebounces == {-1, 0}
GivenRetries   == {0, 1}

\* the events HandleEvent is called with
WHEvents ==
    { [Name |-> <<"a">>, Op |-> {Write}],
      [Name |-> <<"b">>, Op |-> {Create, Write}] }

\* NewWebhookManager: a zero DebounceDuration or MaxRetries gets the default
ApplyDefaults(config) ==
    [ URL |-> config.URL,
      DebounceDuration |-> IF config.DebounceDuration = 0
                           THEN DefaultDebounceDuration ELSE config.DebounceDuration,
      MaxRetries |-> IF config.MaxRetries = 0
                     THEN DefaultMaxRetries ELSE config.MaxRetries ]

\* eventTypeToString: the first of the bits, in this order, that is set
eventTypeToString(op) ==
    IF Create \in op THEN "create"
    ELSE IF Write \in op THEN "write"
    ELSE IF Remove \in op THEN "remove"
    ELSE IF Rename \in op THEN "rename"
    ELSE IF Chmod \in op THEN "chmod"
    ELSE "unknown"

\* time.Now().Format(time.RFC3339): the time to the second
FormatRFC3339(clock) == clock \div TicksPerSecond

\* Fault variant of shouldDebounce: the time of an accepted event is not kept
shouldDebounce_noUpdate(recent, path, clock, debounce) ==
    IF path \in DOMAIN recent /\ clock - recent[path] < debounce
    THEN [ debounced |-> TRUE, recent |-> recent ]
    ELSE [ debounced |-> FALSE,
           recent |-> [ p \in { q \in DOMAIN recent :
                                  ~(clock - recent[q] > debounce * CleanupFactor) }
                        |-> recent[p] ] ]

\* shouldDebounce: suppress a path seen less than DebounceDuration ago;
\* otherwise record the time and drop the entries that are too old
shouldDebounce(recent, path, clock, debounce) ==
    IF path \in DOMAIN recent /\ clock - recent[path] < debounce
    THEN [ debounced |-> TRUE, recent |-> recent ]
    ELSE LET updated == [ p \in DOMAIN recent \cup {path} |->
                            IF p = path THEN clock ELSE recent[p] ]
             kept == { p \in DOMAIN updated :
                         ~(clock - updated[p] > debounce * CleanupFactor) }
         IN  [ debounced |-> FALSE, recent |-> [ p \in kept |-> updated[p] ] ]

\* for i := 0; i <= m.Config.MaxRetries; i++
RetryLoopRuns(i, maxRetries) == i <= maxRetries

\* sendWebhook up to its retry loop: the payload, the request around one
\* bytes.Buffer that holds the payload, resp and sendErr unset, i := 0
NewJob(ev, clock, sync, maxRetries) ==
    [ payload |-> [ path |-> ev.Name, event_type |-> eventTypeToString(ev.Op),
                    timestamp |-> FormatRFC3339(clock) ],
      sync |-> sync, i |-> 0,
      bodyUnread |-> TRUE,   \* the request's buffer has not been read yet
      attempts |-> 0,        \* calls of client.Do
      received |-> 0,        \* requests that reached the endpoint
      refused |-> FALSE,     \* some client.Do got no connection
      last |-> "none",       \* resp, sendErr: "none", "ok", "status", "error"
      pc |-> IF RetryLoopRuns(0, maxRetries) THEN "do" ELSE "done" ]

\* What client.Do(req) can do with the request built before the loop.
\*   "ok", "status": the request is sent, a 2xx or another status comes back
\*   "timeout":      the request is sent, no response comes back
\*   "refused":      no connection, nothing is sent
\*   "bodyGone":     an earlier Do has read the buffer to its end; the request
\*                   still has the payload's ContentLength, so writing it
\*                   fails before anything is sent
DoOutcomes(job) ==
    IF job.bodyUnread THEN {"ok", "status", "timeout", "refused"}
    ELSE {"bodyGone"}

\* resp, sendErr = client.Do(req)
AfterDo(job, outcome) ==
    LET sent == outcome \in {"ok", "status", "timeout"}
    IN  [ job EXCEPT !.attempts = @ + 1,
                     !.received = IF sent THEN @ + 1 ELSE @,
                     !.refused = @ \/ outcome = "refused",
                     !.bodyUnread = @ /\ ~sent,
                     !.last = IF outcome \in {"ok", "status"} THEN outcome
                              ELSE "error" ]

\* Fault variant of BreaksOn: the loop goes on after a 2xx status
BreaksOn_never(outcome) == FALSE

\* if sendErr == nil && resp.StatusCode >= 200 && resp.StatusCode < 300 { break }
BreaksOn(outcome) == outcome = "ok"

\* HandleEvent is blocked inside a sendWebhook that it called itself
ProducerInSendWebhook ==
    \E j \in 1..Len(whJobs) : whJobs[j].sync /\ whJobs[j].pc # "done"

\* the events HandleEvent has passed on so far
HandledSoFar ==
    Len(whSeen) + Len(eventChan)
      + Cardinality({ j \in 1..Len(whJobs) : whJobs[j].sync })

\* HandleEvent(ev)
HandleEventCall(ev) ==
    /\ IF whConfig.URL = ""
       THEN UNCHANGED <<eventChan, whJobs>>
       ELSE IF whConfig.DebounceDuration > 0
       THEN /\ eventChan' = IF Len(eventChan) < EventChanCap
                            THEN Append(eventChan, ev) ELSE eventChan
            /\ UNCHANGED whJobs
       ELSE /\ whJobs' = Append(whJobs, NewJob(ev, now, TRUE, whConfig.MaxRetries))
            /\ UNCHANGED eventChan
    /\ UNCHANGED <<whGiven, whConfig, recentEvents, whSeen>>

\* HandleEvent called by a caller of its own
HandleEvent ==
    /\ ~ProducerInSendWebhook
    /\ HandledSoFar < MaxHandled
    /\ \E ev \in WHEvents : HandleEventCall(ev)
    /\ WebhookOnly

\* processEvents: take the next event; unless debounced, go sendWebhook
ProcessEvents ==
    /\ eventChan # << >>
    /\ LET ev == Head(eventChan)
           d  == shouldDebounce(recentEvents, ev.Name, now, whConfig.DebounceDuration)
       IN  /\ eventChan' = Tail(eventChan)
           /\ recentEvents' = d.recent
           /\ whSeen' = Append(whSeen, [ path |-> ev.Name, time |-> now,
                                         debounced |-> d.debounced ])
           /\ whJobs' = IF d.debounced THEN whJobs
                        ELSE Append(whJobs, NewJob(ev, now, FALSE, whConfig.MaxRetries))
    /\ UNCHANGED <<whGiven, whConfig>>
    /\ WebhookOnly

\* One pass of sendWebhook's loop body: client.Do, break on a 2xx status,
\* else sleep when i < MaxRetries, else i++ and the loop's condition
WebhookAttempt ==
    /\ \E j \in 1..Len(whJobs) :
          /\ whJobs[j].pc = "do"
          /\ \E outcome \in DoOutcomes(whJobs[j]) :
                LET job == AfterDo(whJobs[j], outcome)
                IN  whJobs' = [whJobs EXCEPT ![j] =
                       IF BreaksOn(outcome) THEN [job EXCEPT !.pc = "done"]
                       ELSE IF job.i < whConfig.MaxRetries
                       THEN [job EXCEPT !.pc = "sleep"]
                       ELSE [job EXCEPT !.i = @ + 1,
                                        !.pc = IF RetryLoopRuns(job.i + 1, whConfig.MaxRetries)
                                               THEN "do" ELSE "done"] ]
    /\ UNCHANGED <<whGiven, whConfig, recentEvents, eventChan, whSeen>>
    /\ WebhookOnly

\* time.Sleep(time.Duration(i+1) * time.Second) is over: i++, the condition
WebhookWake ==
    /\ \E j \in 1..Len(whJobs) :
          /\ whJobs[j].pc = "sleep"
          /\ LET job == whJobs[j]
             IN  whJobs' = [whJobs EXCEPT ![j] =
                    [job EXCEPT !.i = @ + 1,
                                !.pc = IF RetryLoopRuns(job.i + 1, whConfig.MaxRetries)
                                       THEN "do" ELSE "done"] ]
    /\ UNCHANGED <<whGiven, whConfig, recentEvents, eventChan, whSeen>>
    /\ WebhookOnly

\* No event for a long time: more than ten debounce windows go by.  The
\* manager has no goroutine but processEvents, which is blocked on eventChan.
WebhookQuiet ==
    /\ whConfig.DebounceDuration > 0
    /\ now <= MaxClock
    /\ now' = now + whConfig.DebounceDuration * CleanupFactor + 1
    /\ UNCHANGED <<filter, fLast, sseVars, wsVars, mVars, whVars, bVars, wVars, xVars>>

----------------------------------------------------------------------------
(* EventBatcher *)

MaxAdded == 3      \* Add and AddBatch are handed at most this many events
MaxBatchArg == 2   \* AddBatch is called with at most this many events

BatchPaths == { <<"a">>, <<"b">> }

\* The events handed in: id numbers them in the order they are handed in
BatchEvent(k, path) == [ id |-> k, Name |-> path, Op |-> {Write} ]

\* the arguments AddBatch is called with when n events were handed in before
RECURSIVE BatchArgs(_, _)
BatchArgs(n, len) ==
    IF len = 0 THEN { << >> }
    ELSE { Append(rest, BatchEvent(n + len, path)) :
             rest \in BatchArgs(n, len - 1), path \in BatchPaths }

\* Fault variant of the append: an event whose path is pending is dropped
BatchAppend_dedup(events, more) ==
    events \o SelectSeq(more, LAMBDA e :
                 \A k \in 1..Len(events) : events[k].Name # e.Name)

\* b.events = append(b.events, events...)
BatchAppend(events, more) == events \o more

\* Fault variant of Add's test: a handler is scheduled on every Add
AddSchedules_always(lenAfter) == TRUE

\* Fault variant of Add's test: only a second event schedules a handler
AddSchedules_late(lenAfter) == lenAfter > 1

\* Add: "if len(b.events) > 1 { return }", else go b.processEvents()
AddSchedules(lenAfter) == ~(lenAfter > 1)

\* AddBatch: needsScheduling := len(b.events) == 0
NeedsScheduling(events) == Len(events) = 0

\* EventBatcher.Add, all of it under handlerLock
BatcherAdd ==
    /\ bAdded < MaxAdded
    /\ \E path \in BatchPaths :
          LET appended == BatchAppend(bEvents, << BatchEvent(bAdded + 1, path) >>)
          IN  /\ bEvents' = appended
              /\ bTimers' = IF AddSchedules(Len(appended)) THEN bTimers + 1 ELSE bTimers
    /\ bAdded' = bAdded + 1
    /\ UNCHANGED <<bStarting, bSending, bOut, bChan>>
    /\ BatcherOnly

\* EventBatcher.AddBatch up to handlerLock.Unlock()
BatcherAddBatch ==
    /\ \E len \in 0..MaxBatchArg :
          /\ bAdded + len <= MaxAdded
          /\ \E events \in BatchArgs(bAdded, len) :
                IF Len(events) = 0
                THEN UNCHANGED <<bEvents, bStarting, bAdded>>
                ELSE /\ bEvents' = BatchAppend(bEvents, events)
                     /\ bStarting' = IF NeedsScheduling(bEvents)
                                     THEN bStarting + 1 ELSE bStarting
                     /\ bAdded' = bAdded + Len(events)
    /\ UNCHANGED <<bTimers, bSending, bOut, bChan>>
    /\ BatcherOnly

\* EventBatcher.AddBatch after the Unlock: if needsScheduling { go ... }
BatcherAddBatchGo ==
    /\ bStarting > 0
    /\ bStarting' = bStarting - 1
    /\ bTimers' = bTimers + 1
    /\ UNCHANGED <<bEvents, bSending, bOut, bAdded, bChan>>
    /\ BatcherOnly

\* processEvents after time.Sleep(handlerDelay): take the slice, reset it,
\* and go on to send the batch if it is not empty
BatcherFlush ==
    /\ bTimers > 0
    /\ bTimers' = bTimers - 1
    /\ bEvents' = << >>
    /\ bSending' = IF Len(bEvents) > 0 THEN Append(bSending, bEvents) ELSE bSending
    /\ UNCHANGED <<bStarting, bOut, bAdded, bChan>>
    /\ BatcherOnly

\* "b.eventChan <- events" meets a receive from Events(): the channel has no
\* buffer, and which blocked sender a receive picks is not specified
BatcherReceive ==
    /\ bChan = "open"
    /\ \E k \in 1..Len(bSending) :
          /\ bOut' = Append(bOut, bSending[k])
          /\ bSending' = [ j \in 1..(Len(bSending) - 1) |->
                             IF j < k THEN bSending[j] ELSE bSending[j + 1] ]
    /\ UNCHANGED <<bEvents, bTimers, bStarting, bAdded, bChan>>
    /\ BatcherOnly

\* the panic of a send on a closed channel
SendOnClosed == "send on closed channel"

\* Close: close(b.eventChan).  It takes no lock and waits for nothing; a
\* processEvents blocked in its send panics.
BatcherClose ==
    /\ bChan = "open"
    /\ bChan' = IF bSending # << >> THEN SendOnClosed ELSE "closed"
    /\ UNCHANGED <<bEvents, bTimers, bStarting, bSending, bOut, bAdded>>
    /\ BatcherOnly

\* processEvents reaches "b.eventChan <- events" after Close
BatcherSendAfterClose ==
    /\ bChan = "closed"
    /\ bSending # << >>
    /\ bChan' = SendOnClosed
    /\ UNCHANGED <<bEvents, bTimers, bStarting, bSending, bOut, bAdded>>
    /\ BatcherOnly

----------------------------------------------------------------------------
(* Watcher: the file tree, fsnotify, and the watch loop *)

MaxFsOps       == 3   \* the environment makes at most this many changes
MaxNativeQueue == 2   \* events waiting in fsnotify's Events channel
MaxAddFailures == 1   \* watcher.Add fails at most this many times

\* The tree: the root w, the directory w/.h and the file w/.h/f, the files
\* w/a.c and w/a.j, the directory w/d and the file w/d/g
Root    == <<"w">>
HidDir  == <<"w", "/", ".", "h">>
HidFile == <<"w", "/", ".", "h", "/", "f">>
FileC   == <<"w", "/", "a", ".", "c">>
FileJ   == <<"w", "/", "a", ".", "j">>
SubDir  == <<"w", "/", "d">>
FileG   == <<"w", "/", "d", "/", "g">>

\* filepath.Walk visits a directory's entries in lexical order
WalkOrder == << Root, HidDir, HidFile, FileC, FileJ, SubDir, FileG >>

\* the paths that are directories when they exist
Dirs == {Root, HidDir, SubDir}

ParentOf(p) == IF p = FileG THEN SubDir ELSE IF p = HidFile THEN HidDir ELSE Root

PathExists(p) == p = Root \/ p \in fs

\* os.Stat(path) succeeds and info.IsDir()
isDirectory(p) == PathExists(p) /\ p \in Dirs

\* fsnotify reports a change of p when p or its directory is watched
Reported(p) == p \in native \/ ParentOf(p) \in native

\* the Events channel after a change of p
Emit(p, op) ==
    IF Reported(p) THEN Append(nativeEvents, [Name |-> p, Op |-> {op}])
    ELSE nativeEvents

\* the environment creates a file or directory
FsCreate ==
    /\ wFsOps < MaxFsOps
    /\ Len(nativeEvents) < MaxNativeQueue
    /\ \E p \in fsScope \ fs :
          /\ PathExists(ParentOf(p))
          /\ fs' = fs \cup {p}
          /\ nativeEvents' = Emit(p, Create)
          /\ wFresh' = IF p \notin Dirs /\ ParentOf(p) \in native
                       THEN wFresh \cup {p} ELSE wFresh
    /\ wFsOps' = wFsOps + 1
    /\ UNCHANGED <<fsScope, native, wRecursive, directories, watches, wStarted,
                   wScheduled, wEvents, wTimers, wSending, wOut, wFailuresLeft,
                   loopTodo, loopPc>>
    /\ WatcherOnly

\* the environment writes to a file
FsWrite ==
    /\ wFsOps < MaxFsOps
    /\ Len(nativeEvents) < MaxNativeQueue
    /\ \E p \in fs \ Dirs :
          nativeEvents' = Emit(p, Write)
    /\ wFsOps' = wFsOps + 1
    /\ UNCHANGED <<fsScope, fs, native, wRecursive, directories, watches,
                   wStarted, wScheduled, wEvents, wTimers, wSending, wOut,
                   wFailuresLeft, wFresh, loopTodo, loopPc>>
    /\ WatcherOnly

\* the environment removes a file or an empty directory; the kernel drops
\* the native watch of what is removed
FsRemove ==
    /\ wFsOps < MaxFsOps
    /\ Len(nativeEvents) < MaxNativeQueue
    /\ \E p \in fs :
          /\ \A q \in fs : q = p \/ ParentOf(q) # p
          /\ fs' = fs \ {p}
          /\ nativeEvents' = Emit(p, Remove)
          /\ native' = native \ {p}
    /\ wFsOps' = wFsOps + 1
    /\ UNCHANGED <<fsScope, wRecursive, directories, watches, wStarted,
                   wScheduled, wEvents, wTimers, wSending, wOut, wFailuresLeft,
                   wFresh, loopTodo, loopPc>>
    /\ WatcherOnly

\* the sets of paths for which w.watcher.Add can fail in one addWatches
CanFail(paths) ==
    { F \in SUBSET paths : Cardinality(F) <= wFailuresLeft }

\* the outcomes of one w.watcher.Add: TRUE is err == nil
AddOutcomes == IF wFailuresLeft > 0 THEN {TRUE, FALSE} ELSE {TRUE}

\* Fault variant of addDirectory: a path whose Add failed is not recorded
addDirectory_onlyOnSuccess(dirs, ws, nat, path, ok) ==
    [ directories |-> IF ok THEN dirs \cup {path} ELSE dirs,
      watches |-> IF ok THEN ws \cup {path} ELSE ws,
      native  |-> IF ok THEN nat \cup {path} ELSE nat ]

\* addDirectory: record the directory, add its watch; ok is Add's success
addDirectory(dirs, ws, nat, path, ok) ==
    [ directories |-> dirs \cup {path},
      watches |-> IF ok THEN ws \cup {path} ELSE ws,
      native  |-> IF ok THEN nat \cup {path} ELSE nat ]

\* removeDirectory
removeDirectory(dirs, ws, path) ==
    [ directories |-> dirs \ {path}, watches |-> ws \ {path} ]

\* the paths filepath.Walk(dir, ...) hands to addWatches' callback without
\* an error, in order: nothing below a directory that is skipped
WalkList(dir, recursive) ==
    SelectSeq(WalkOrder, LAMBDA p :
        /\ PathExists(dir) /\ dir \in Dirs
        /\ PathExists(p)
        /\ \/ p = dir
           \/ ParentOf(p) = dir /\ (p \in Dirs => recursive)
           \/ /\ dir = Root
              /\ ParentOf(p) # Root
              /\ ParentOf(p) \in fs
              /\ recursive)

\* Fault variant of Registered: a path whose Add fails is marked all the same
Registered_marksFailed(list, ws, failing) ==
    SelectSeq(list, LAMBDA p : p \notin ws)

\* the paths of a walk that get a watch: not watched yet, and Add succeeds
Registered(list, ws, failing) ==
    SelectSeq(list, LAMBDA p : p \notin ws /\ p \notin failing)

\* Fault variant of NewFiles: directories are reported as well
NewFiles_withDirectories(added) == added

\* if !info.IsDir(): the newly watched paths that go into newWatchPaths
NewFiles(added) == SelectSeq(added, LAMBDA p : p \notin Dirs)

\* addWatches over the directories in the order dirSeq; failing: the paths
\* whose Add fails. Gives the watches and the new files, in order.
RECURSIVE AddWatchesOver(_, _, _, _)
AddWatchesOver(dirSeq, recursive, failing, acc) ==
    IF dirSeq = << >> THEN acc
    ELSE LET list == WalkList(Head(dirSeq), recursive)
             added == Registered(list, acc.watches, failing)
         IN  AddWatchesOver(Tail(dirSeq), recursive, failing,
                [ watches |-> acc.watches \cup { added[k] : k \in 1..Len(added) },
                  newWatchPaths |-> acc.newWatchPaths \o NewFiles(added) ])

\* the orders in which "for dir := range w.directories" can run
DirOrders(dirs) ==
    { sq \in UNION { [1..n -> dirs] : n \in {Cardinality(dirs)} } :
        \A i, j \in DOMAIN sq : i # j => sq[i] # sq[j] }

\* the paths addWatches can try to add a watch for
AddCandidates(dirs, recursive, ws) ==
    { p \in { WalkOrder[k] : k \in 1..Len(WalkOrder) } :
        /\ p \notin ws
        /\ \E dir \in dirs :
              \E k \in 1..Len(WalkList(dir, recursive)) :
                  WalkList(dir, recursive)[k] = p }

\* scheduleCreateEvents: a Create event for each path
CreateEventsFor(paths) ==
    [ k \in 1..Len(paths) |-> [Name |-> paths[k], Op |-> {Create}] ]

\* the next arrival number: events are numbered as scheduleHandler gets them
NumberFrom(events, first) ==
    [ k \in 1..Len(events) |->
        [ Name |-> events[k].Name, Op |-> events[k].Op, n |-> first + k - 1 ] ]

\* Fault variant of scheduleHandler's append: the new event goes in front
ScheduleAppend_inFront(events, more) == more \o events

\* w.events = append(w.events, event)
ScheduleAppend(events, more) == events \o more

\* a change of the root directory itself (its mode, its times): a native
\* event the watcher has nothing to do for; there is no end to these
FsTouch ==
    /\ Root \in native
    /\ Len(nativeEvents) < MaxNativeQueue
    /\ nativeEvents' = Append(nativeEvents, [Name |-> Root, Op |-> {Chmod}])
    /\ UNCHANGED <<fsScope, fs, native, wRecursive, directories, watches,
                   wStarted, wScheduled, wEvents, wTimers, wSending, wOut,
                   wFsOps, wFailuresLeft, wFresh, loopTodo, loopPc>>
    /\ WatcherOnly

\* scheduleHandler for each event of more, in order: append, and start the
\* sleeping goroutine when the slice was empty
Schedule(more) ==
    /\ wEvents' = ScheduleAppend(wEvents, NumberFrom(more, wScheduled + 1))
    /\ wScheduled' = wScheduled + Len(more)
    /\ wTimers' = IF wEvents = << >> /\ more # << >> THEN wTimers + 1
                  ELSE wTimers

\* addWatches followed by scheduleCreateEvents
AddWatchesAndSchedule ==
    \E order \in DirOrders(directories) :
      \E F \in CanFail(AddCandidates(directories, wRecursive, watches)) :
        LET r == AddWatchesOver(order, wRecursive, F,
                    [ watches |-> watches, newWatchPaths |-> << >> ])
        IN  /\ watches' = r.watches
            /\ native' = native \cup (r.watches \ watches)
            /\ wFailuresLeft' = wFailuresLeft - Cardinality(F)
            /\ Schedule(CreateEventsFor(r.newWatchPaths))

\* Start: the initial watches, the Create events of the files found, and
\* the watch loop
WatcherStart ==
    /\ ~wStarted
    /\ wStarted' = TRUE
    /\ AddWatchesAndSchedule
    /\ UNCHANGED <<fsScope, fs, nativeEvents, wRecursive, directories,
                   wSending, wOut, wFsOps, wFresh, loopTodo, loopPc>>
    /\ WatcherOnly

\* watchLoop, case <-time.After(w.pollInterval): the select has waited a
\* whole poll interval and no native event has come
WatchLoopPoll ==
    /\ wStarted
    /\ nativeEvents = << >>
    /\ AddWatchesAndSchedule
    /\ UNCHANGED <<fsScope, fs, nativeEvents, wRecursive, directories,
                   wStarted, wSending, wOut, wFsOps, wFresh, loopTodo, loopPc>>
    /\ WatcherOnly

\* handleDirectoryEvent
HandleDirectoryEvent(event) ==
    IF ~wRecursive THEN
        UNCHANGED <<directories, watches, native, wFailuresLeft>>
    ELSE IF Create \in event.Op THEN
        \E ok \in AddOutcomes :
          LET r == addDirectory(directories, watches, native, event.Name, ok)
          IN  /\ directories' = r.directories
              /\ watches' = r.watches
              /\ native' = r.native
              /\ wFailuresLeft' = IF ok THEN wFailuresLeft ELSE wFailuresLeft - 1
    ELSE IF Remove \in event.Op THEN
        LET r == removeDirectory(directories, watches, event.Name)
        IN  /\ directories' = r.directories
            /\ watches' = r.watches
            /\ UNCHANGED <<native, wFailuresLeft>>
    ELSE UNCHANGED <<directories, watches, native, wFailuresLeft>>

\* handleFileEvent
HandleFileEvent(event) ==
    /\ Schedule(<< event >>)
    /\ watches' = IF event.Op \cap {Remove, Rename} # {}
                  THEN watches \ {event.Name} ELSE watches
    /\ UNCHANGED <<directories, native, wFailuresLeft>>

\* watchLoop, case event := <-w.watcher.Events: handleEvent
WatchLoopEvent ==
    /\ wStarted
    /\ nativeEvents # << >>
    /\ LET event == Head(nativeEvents)
       IN  IF isDirectory(event.Name)
           THEN /\ HandleDirectoryEvent(event)
                /\ UNCHANGED <<wEvents, wScheduled, wTimers>>
           ELSE HandleFileEvent(event)
    /\ nativeEvents' = Tail(nativeEvents)
    /\ UNCHANGED <<fsScope, fs, wRecursive, wStarted, wSending, wOut, wFsOps,
                   wFresh, loopTodo, loopPc>>
    /\ WatcherOnly

\* the goroutine of scheduleHandler after its sleep: take the slice, then
\* block sending it on eventChan
WatcherFlush ==
    /\ wTimers > 0
    /\ wTimers' = wTimers - 1
    /\ wEvents' = << >>
    /\ wSending' = IF Len(wEvents) > 0 THEN Append(wSending, wEvents)
                   ELSE wSending
    /\ UNCHANGED <<fsScope, fs, native, nativeEvents, wRecursive, directories,
                   watches, wStarted, wScheduled, wOut, wFsOps, wFailuresLeft,
                   wFresh, loopTodo, loopPc>>
    /\ WatcherOnly

\* the files of which a batch carries a Create event
CreatedIn(batch) ==
    { batch[k].Name : k \in { i \in 1..Len(batch) : Create \in batch[i].Op } }

\* a sequence without its k-th element
DropAt(sq, k) == SubSeq(sq, 1, k - 1) \o SubSeq(sq, k + 1, Len(sq))

\* a receive from Events(): one of the blocked goroutines gets through
WatcherReceive ==
    /\ \E k \in 1..Len(wSending) :
          /\ wOut' = wSending[k]
          /\ wSending' = DropAt(wSending, k)
          /\ wFresh' = wFresh \ CreatedIn(wSending[k])
    /\ UNCHANGED <<fsScope, fs, native, nativeEvents, wRecursive, directories,
                   watches, wStarted, wScheduled, wEvents, wTimers, wFsOps,
                   wFailuresLeft, loopTodo, loopPc>>
    /\ WatcherOnly

----------------------------------------------------------------------------
(* EventServer: from the watcher's batches to the streamer *)

\* the fsnotify.Event of a scheduled event
Plain(ev) == [ Name |-> ev.Name, Op |-> ev.Op ]

\* the loop after it is done with the head of the batch
LoopAdvance ==
    /\ loopTodo' = Tail(loopTodo)
    /\ loopPc' = IF Tail(loopTodo) = << >> THEN "recv" ELSE "next"

\* case events := <-watcher.Events()
EventLoopReceive ==
    /\ loopPc = "recv"
    /\ \E k \in 1..Len(wSending) :
          /\ wOut' = wSending[k]
          /\ loopTodo' = wSending[k]
          /\ wSending' = DropAt(wSending, k)
          /\ wFresh' = wFresh \ CreatedIn(wSending[k])
    /\ loopPc' = "next"
    /\ UNCHANGED <<fsScope, fs, native, nativeEvents, wRecursive, directories,
                   watches, wStarted, wScheduled, wEvents, wTimers, wFsOps,
                   wFailuresLeft>>
    /\ WatcherOnly

\* for _, event := range events: the filter, then streamer.Send(event)
EventLoopNext ==
    /\ loopPc = "next"
    /\ IF FilteredOut(filter, Plain(Head(loopTodo)))
       THEN /\ LoopAdvance
            /\ UNCHANGED <<now, filter, wsVars>>
       ELSE /\ WSSendCall(Plain(Head(loopTodo)))
            /\ IF wsSend' = wsSend THEN LoopAdvance
               ELSE loopPc' = "send" /\ UNCHANGED loopTodo
    /\ UNCHANGED <<fsScope, fs, native, nativeEvents, wRecursive, directories,
                   watches, wStarted, wScheduled, wEvents, wTimers, wSending,
                   wOut, wFsOps, wFailuresLeft, wFresh>>
    /\ UNCHANGED <<fLast, sseVars, mVars, whVars, bVars, xVars>>

\* the one client of this specification connects
PipelineClient ==
    /\ WSRegister({"c1"})
    /\ WSOnly

\* streamer.Send has returned; webhookManager is nil
EventLoopSendReturns ==
    /\ loopPc = "send"
    /\ wsSend.pc = "idle"
    /\ LoopAdvance
    /\ UNCHANGED <<fsScope, fs, native, nativeEvents, wRecursive, directories,
                   watches, wStarted, wScheduled, wEvents, wTimers, wSending,
                   wOut, wFsOps, wFailuresLeft, wFresh>>
    /\ WatcherOnly

----------------------------------------------------------------------------
(* EventServer: the loop's calls of the streamer and the webhook manager *)

\* what streamer.Send can return (EventStreamer: Send(event) error)
SendReturns == {"nil", "error"}

\* Fault variant of WebhookAfterSend: an error of Send ends the iteration
WebhookAfterSend_onlyOnSuccess(err) == err = "nil"

\* after 'if err := streamer.Send(event); err != nil && LogError != nil
\* { LogError(err) }' the loop body goes on
WebhookAfterSend(err) == TRUE

\* webhookManager != nil: EventServer made one, opts.WebhookURL != ""
HasWebhookManager == whGiven.URL # ""

\* an entry of the record of the loop's calls
LoopCall(to, ev, result) == [ to |-> to, n |-> ev.n, result |-> result ]

\* One iteration of 'for _, event := range events': the filter, and for an
\* event that passes streamer.Send and then webhookManager.HandleEvent.
\* The iteration starts when the HandleEvent of the one before has returned.
EventLoopDispatch ==
    /\ loopPc = "next"
    /\ ~ProducerInSendWebhook
    /\ LET ev == Head(loopTodo)
       IN  IF FilteredOut(filter, Plain(ev))
           THEN /\ srv' = [srv EXCEPT !.calls =
                              Append(@, LoopCall("ShouldProcessEvent", ev, "false"))]
                /\ UNCHANGED whVars
           ELSE \E err \in SendReturns :
                  LET hook == HasWebhookManager /\ WebhookAfterSend(err)
                  IN  /\ srv' = [srv EXCEPT !.calls =
                                    @ \o << LoopCall("ShouldProcessEvent", ev, "true"),
                                            LoopCall("Send", ev, err) >>
                                      \o (IF hook
                                          THEN << LoopCall("HandleEvent", ev, "") >>
                                          ELSE << >>)]
                      /\ IF hook THEN HandleEventCall(Plain(ev))
                         ELSE UNCHANGED whVars
    /\ LoopAdvance
    /\ UNCHANGED <<fsScope, fs, native, nativeEvents, wRecursive, directories,
                   watches, wStarted, wScheduled, wEvents, wTimers, wSending,
                   wOut, wFsOps, wFailuresLeft, wFresh>>
    /\ UNCHANGED <<now, filter, fLast, sseVars, wsVars, mVars, bVars, rw>>

----------------------------------------------------------------------------
(* WebSocketStreamer: the clients' SendChan channels and who closes them *)

\* how many times Start is called
MaxStarts == 2

\* ws.clients = make(map[string]*WebSocketClient) at the end of Stop's loop
RegistryAfterStop_kept(clients) == clients
RegistryAfterStop(clients) == {}

\* a lock operation on ws.mutex can go ahead: no Send holds RLock, no Stop
\* holds Lock (Start and readLoop's deferred delete hold it for one step)
MutexFree == ~srv.sending /\ ~srv.stopping

ChanAlive == srv.pc = "ws" /\ srv.panic = "none"

\* Start: under Lock, return if started, else started = true
ChStart ==
    /\ ChanAlive
    /\ MutexFree
    /\ srv.starts < MaxStarts
    /\ ~srv.started
    /\ srv' = [srv EXCEPT !.started = TRUE, !.starts = @ + 1]
    /\ ServerOnly

\* handleWebSocket: a client with a new ID and a new SendChan, put into
\* ws.clients under clientsMu, which neither Send nor Stop holds.  Written
\* while one of them ranges over the map, the entry is visited by that loop
\* or not, or the runtime stops the process.
ChHandleWebSocket ==
    /\ ChanAlive
    /\ srv.starts > 0
    /\ \E c \in ClientIds :
          /\ ~srv.chans[c].made
          /\ \/ srv' = [srv EXCEPT !.chans[c].made = TRUE,
                                   !.clients = @ \cup {c},
                                   !.readers = @ \cup {c}]
             \/ /\ srv.sending
                /\ srv' = [srv EXCEPT !.chans[c].made = TRUE,
                                      !.clients = @ \cup {c},
                                      !.readers = @ \cup {c},
                                      !.send = @ \cup {c}]
             \/ /\ srv.stopping
                /\ srv' = [srv EXCEPT !.chans[c].made = TRUE,
                                      !.clients = @ \cup {c},
                                      !.readers = @ \cup {c},
                                      !.stop = @ \cup {c}]
             \/ /\ ~MutexFree
                /\ srv' = [srv EXCEPT !.panic = "concurrent map iteration and map write"]
    /\ ServerOnly

\* Send: RLock, the range over ws.clients begins
ChSendBegin ==
    /\ ChanAlive
    /\ MutexFree
    /\ srv.starts > 0
    /\ srv' = [srv EXCEPT !.sending = TRUE, !.send = srv.clients]
    /\ ServerOnly

\* Send: select { case client.SendChan <- data: default: }.  A send on a
\* closed channel panics.
ChSendToClient ==
    /\ ChanAlive
    /\ srv.sending
    /\ \E c \in srv.send :
          IF srv.chans[c].closes > 0
          THEN srv' = [srv EXCEPT !.panic = "send on closed channel"]
          ELSE srv' = [srv EXCEPT !.send = @ \ {c},
                                 !.chans[c].queued =
                                    IF @ < SendChanCap THEN @ + 1 ELSE @]
    /\ ServerOnly

\* Send: the range is over, RUnlock
ChSendEnd ==
    /\ ChanAlive
    /\ srv.sending
    /\ srv.send = {}
    /\ srv' = [srv EXCEPT !.sending = FALSE]
    /\ ServerOnly

\* Stop: Lock; return nil if not started, else the range over ws.clients
ChStopBegin ==
    /\ ChanAlive
    /\ MutexFree
    /\ srv.starts > 0
    /\ srv.stops < MaxStarts + 1
    /\ srv' = IF srv.started
              THEN [srv EXCEPT !.stopping = TRUE, !.stop = srv.clients,
                               !.stops = @ + 1]
              ELSE [srv EXCEPT !.stops = @ + 1]
    /\ ServerOnly

\* Stop: close(client.SendChan); client.Connection.Close().  Closing a
\* closed channel panics.
ChStopClose ==
    /\ ChanAlive
    /\ srv.stopping
    /\ \E c \in srv.stop :
          IF srv.chans[c].closes > 0
          THEN srv' = [srv EXCEPT !.panic = "close of closed channel"]
          ELSE srv' = [srv EXCEPT !.stop = @ \ {c}, !.chans[c].closes = @ + 1]
    /\ ServerOnly

\* Stop: the new map, server.Shutdown, started = false, Unlock
ChStopEnd ==
    /\ ChanAlive
    /\ srv.stopping
    /\ srv.stop = {}
    /\ srv' = [srv EXCEPT !.stopping = FALSE, !.started = FALSE,
                          !.clients = RegistryAfterStop(@)]
    /\ ServerOnly

\* readLoop ends (ReadMessage fails: the client left, or the connection was
\* closed): under Lock delete(ws.clients, client.ID)
ChReadLoopExit ==
    /\ ChanAlive
    /\ MutexFree
    /\ \E c \in srv.readers :
          srv' = [srv EXCEPT !.readers = @ \ {c}, !.clients = @ \ {c}]
    /\ ServerOnly

\* writeLoop: message, ok := <-client.SendChan with a message
ChWriteLoop ==
    /\ ChanAlive
    /\ \E c \in ClientIds :
          /\ srv.chans[c].queued > 0
          /\ srv' = [srv EXCEPT !.chans[c].queued = @ - 1]
    /\ ServerOnly

----------------------------------------------------------------------------
(* Watcher: Close, the watch loop and the unbuffered control channels *)

\* errors fsnotify reports on its Errors channel, at most
MaxErrors == 2

\* Start: go w.watchLoop()
WcStart ==
    /\ srv.pc = "close"
    /\ srv.loop = "none"
    /\ srv' = [srv EXCEPT !.loop = "select"]
    /\ ServerOnly

\* fsnotify has an event or an error for the watcher
WcNative ==
    /\ srv.pc = "close"
    /\ srv.close # "returned"
    /\ \/ /\ srv.events < MaxNativeQueue
          /\ srv' = [srv EXCEPT !.events = @ + 1]
       \/ /\ srv.errors < MaxErrors
          /\ srv' = [srv EXCEPT !.errors = @ + 1]
    /\ ServerOnly

\* watchLoop, case event := <-w.watcher.Events: handleEvent returns nil
\* without blocking, the loop is back at its select
WcLoopEvent ==
    /\ srv.pc = "close"
    /\ srv.loop = "select"
    /\ srv.events > 0
    /\ srv' = [srv EXCEPT !.events = @ - 1]
    /\ ServerOnly

\* watchLoop, case err := <-w.watcher.Errors: w.errorChan <- err, a send
\* on a channel without buffer
WcLoopError ==
    /\ srv.pc = "close"
    /\ srv.loop = "select"
    /\ srv.errors > 0
    /\ srv' = [srv EXCEPT !.errors = @ - 1, !.loop = "sendError"]
    /\ ServerOnly

\* somebody receives from Errors()
WcErrorReceived ==
    /\ srv.pc = "close"
    /\ srv.loop = "sendError"
    /\ srv.errorsRead
    /\ srv' = [srv EXCEPT !.loop = "select"]
    /\ ServerOnly

\* Close is called: w.closeChan <- true, a send on a channel without buffer
WcCloseCall ==
    /\ srv.pc = "close"
    /\ srv.close = "none"
    /\ srv' = [srv EXCEPT !.close = "sendClose"]
    /\ ServerOnly

\* watchLoop, case <-w.closeChan: return.  Close's send has got through.
WcLoopClose ==
    /\ srv.pc = "close"
    /\ srv.loop = "select"
    /\ srv.close = "sendClose"
    /\ srv' = [srv EXCEPT !.loop = "returned", !.close = "watcherClose"]
    /\ ServerOnly

\* Close: return w.watcher.Close()
WcCloseReturns ==
    /\ srv.pc = "close"
    /\ srv.close = "watcherClose"
    /\ srv' = [srv EXCEPT !.close = "returned"]
    /\ ServerOnly

----------------------------------------------------------------------------
(* EventServer: setup, the streamers' listeners, cancellation *)

\* what EventServer is run with: what the root path is, whether
\* fsnotify.NewWatcher succeeds, the stream method, a webhook URL or none
ServerInputs ==
    [ root : {"dir", "file", "missing"}, facility : BOOLEAN,
      method : {"sse", "ws", "both"}, webhook : BOOLEAN ]

\* the streamers EventServer creates for a stream method
Adapters(method) ==
    CASE method = "sse" -> {"sse"}
      [] method = "ws" -> {"ws"}
      [] OTHER -> {"sse", "ws"}

\* the goroutines that serve one client of a streamer
ClientGoroutines(a) ==
    IF a = "sse" THEN {"sseHandler"} ELSE {"wsWriter", "wsReader"}

\* Exists(path): os.Stat succeeds
Exists(root) == root # "missing"

\* if !Exists(path) { FatalExit(...) }
SrvCheckPath ==
    /\ srv.pc = "check"
    /\ srv' = [srv EXCEPT !.pc = IF Exists(srv.given.root) THEN "newWatcher"
                                 ELSE "exited"]
    /\ ServerOnly

\* NewWatcher; FatalExit when fsnotify.NewWatcher fails.  The root is
\* handed to addDirectory whatever it is.
SrvNewWatcher ==
    /\ srv.pc = "newWatcher"
    /\ srv' = [srv EXCEPT !.pc = IF srv.given.facility THEN "webhook"
                                 ELSE "exited"]
    /\ ServerOnly

\* NewWebhookManager if a URL is given: go manager.processEvents()
SrvNewWebhook ==
    /\ srv.pc = "webhook"
    /\ srv' = [srv EXCEPT !.pc = "streamer",
                          !.running = IF srv.given.webhook
                                      THEN @ \cup {"webhookWorker"} ELSE @]
    /\ ServerOnly

\* streamer.Start(ctx): each streamer makes its http.Server on the one
\* eventAddr and starts ListenAndServe in a goroutine
SrvStartStreamer ==
    /\ srv.pc = "streamer"
    /\ srv' = [srv EXCEPT !.pc = "loop",
                          !.servers = [ a \in Adapters(srv.given.method) |-> "starting" ]]
    /\ ServerOnly

\* go func() { for { select { case events := <-watcher.Events(): ...
SrvStartLoop ==
    /\ srv.pc = "loop"
    /\ srv' = [srv EXCEPT !.pc = "watcher", !.running = @ \cup {"eventLoop"}]
    /\ ServerOnly

\* watcher.Start(): go w.watchLoop()
SrvWatcherStart ==
    /\ srv.pc = "watcher"
    /\ srv' = [srv EXCEPT !.pc = "running", !.running = @ \cup {"watchLoop"}]
    /\ ServerOnly

\* server.ListenAndServe() in its goroutine: the address is bound unless
\* another server holds it
SrvListenAndServe ==
    /\ \E a \in DOMAIN srv.servers :
          /\ srv.servers[a] = "starting"
          /\ srv' = [srv EXCEPT !.servers[a] =
                        IF \E b \in DOMAIN srv.servers : srv.servers[b] = "serving"
                        THEN "failed" ELSE "serving"]
    /\ ServerOnly

\* a client connects: handleSSE runs, or handleWebSocket starts writeLoop
\* and readLoop
SrvConnect ==
    /\ \E a \in DOMAIN srv.servers :
          /\ srv.servers[a] = "serving"
          /\ srv.conns[a] = "none"
          /\ srv' = [srv EXCEPT !.conns[a] = "open",
                                !.running = @ \cup ClientGoroutines(a)]
    /\ ServerOnly

\* a client goes away
SrvClientLeaves ==
    /\ \E a \in DOMAIN srv.servers :
          /\ srv.conns[a] = "open"
          /\ srv' = [srv EXCEPT !.conns[a] = "closed"]
    /\ ServerOnly

\* the context given to Start is cancelled
SrvCancel ==
    /\ srv.pc = "running"
    /\ ~srv.cancelled
    /\ srv' = [srv EXCEPT !.cancelled = TRUE]
    /\ ServerOnly

\* what Stop does to a client connection: WebSocketStreamer.Stop closes
\* SendChan and Connection of every client, SSEStreamer.Stop only calls
\* server.Shutdown, which closes no connection that is in use
ConnAfterStop(a, conn) ==
    IF a = "ws" /\ conn = "open" THEN "closed" ELSE conn

\* <-ctx.Done(); Stop(): server.Shutdown closes the listener
SrvStop ==
    /\ srv.cancelled
    /\ \E a \in DOMAIN srv.servers \ srv.stopped :
          srv' = [srv EXCEPT !.stopped = @ \cup {a},
                             !.servers[a] = IF @ = "failed" THEN "failed" ELSE "closed",
                             !.conns[a] = ConnAfterStop(a, @)]
    /\ ServerOnly

\* writeLoop returns: SendChan is closed, or writing to the connection fails
SrvWriteLoopReturns ==
    /\ "wsWriter" \in srv.running
    /\ srv.conns["ws"] = "closed"
    /\ srv' = [srv EXCEPT !.running = @ \ {"wsWriter"}]
    /\ ServerOnly

\* readLoop returns: ReadMessage fails
SrvReadLoopReturns ==
    /\ "wsReader" \in srv.running
    /\ srv.conns["ws"] = "closed"
    /\ srv' = [srv EXCEPT !.running = @ \ {"wsReader"}]
    /\ ServerOnly

\* handleSSE: one more round of its for loop, which has no way out
SrvHandleSSELoop ==
    /\ "sseHandler" \in srv.running
    /\ srv' = [srv EXCEPT !.rounds = 1 - @]
    /\ ServerOnly

----------------------------------------------------------------------------
(* NewRecursiveWatcher: the worker pool that adds the folders *)

\* runtime.NumCPU() capped at 8 in the code; the workers modelled
NumWorkers == 2
\* the most folders Subfolders returns here
MaxFolders == 3

Workers == 1..NumWorkers
FolderNames == << "w", "w/a", "w/b", "w/c", "w/d" >>

\* Subfolders(path): the root and the folders below it, each once
SubfoldersResult(n) == SubSeq(FolderNames, 1, n)

\* rw.Folders = make(chan string, len(folders))
FoldersCap_oneShort(n) == n - 1
FoldersCap(n) == n

\* for _, folder := range folders { folderChan <- folder }: folderChan has
\* room for all of them, so the send never blocks
RwSendFolder ==
    /\ rw.pc = "send"
    /\ rw.sent < Len(rw.folders)
    /\ rw' = [rw EXCEPT !.sent = @ + 1,
                        !.folderChan = Append(@, rw.folders[rw.sent + 1])]
    /\ PoolOnly

\* close(folderChan), then wg.Wait()
RwCloseChan ==
    /\ rw.pc = "send"
    /\ rw.sent = Len(rw.folders)
    /\ rw' = [rw EXCEPT !.pc = "wait"]
    /\ PoolOnly

\* a worker's 'for folder := range folderChan' receives a folder
RwWorkerTake(w) ==
    /\ rw.worker[w].pc = "range"
    /\ rw.folderChan # << >>
    /\ rw' = [rw EXCEPT !.folderChan = Tail(@),
                        !.worker[w] = [ pc |-> "add", folder |-> Head(rw.folderChan) ]]
    /\ PoolOnly

\* AddFolder under watcher.mu: watcher.Add, and on success the
\* non-blocking send to Folders
RwAddFolder(w) ==
    /\ rw.worker[w].pc = "add"
    /\ \E ok \in BOOLEAN :
          LET folder == rw.worker[w].folder
              room == Len(rw.Folders) < FoldersCap(Len(rw.folders))
          IN  rw' = [rw EXCEPT !.worker[w] = [ pc |-> "range", folder |-> "" ],
                              !.added = IF ok THEN Append(@, folder) ELSE @,
                              !.by = IF ok THEN @ \cup {w} ELSE @,
                              !.failed = IF ok THEN @ ELSE @ \cup {folder},
                              !.Folders = IF ok /\ room THEN Append(@, folder) ELSE @]
    /\ PoolOnly

\* the range loop ends: folderChan is closed and empty; defer wg.Done()
RwWorkerDone(w) ==
    /\ rw.worker[w].pc = "range"
    /\ rw.pc = "wait"
    /\ rw.folderChan = << >>
    /\ rw' = [rw EXCEPT !.worker[w].pc = "done"]
    /\ PoolOnly

\* wg.Wait() returns; return rw, nil
RwReturn ==
    /\ rw.pc = "wait"
    /\ \A w \in Workers : rw.worker[w].pc = "done"
    /\ rw' = [rw EXCEPT !.pc = "returned"]
    /\ PoolOnly

----------------------------------------------------------------------------
(* Initial states and specifications *)

\* no EventServer is run
InitNoServer == srv = [ pc |-> "none" ]

\* no RecursiveWatcher is built
InitNoRecursive == rw = [ pc |-> "none" ]

\* no Watcher is built
InitNoWatcher ==
    /\ fsScope = {}
    /\ fs = {}
    /\ native = {}
    /\ nativeEvents = << >>
    /\ wRecursive = FALSE
    /\ directories = {}
    /\ watches = {}
    /\ wStarted = FALSE
    /\ wScheduled = 0
    /\ wEvents = << >>
    /\ wTimers = 0
    /\ wSending = << >>
    /\ wOut = << >>
    /\ wFsOps = 0
    /\ wFailuresLeft = 0
    /\ wFresh = {}
    /\ loopTodo = << >>
    /\ loopPc = "recv"

\* NewEventBatcher
InitBatcher ==
    /\ bEvents = << >>
    /\ bTimers = 0
    /\ bStarting = 0
    /\ bSending = << >>
    /\ bOut = << >>
    /\ bAdded = 0
    /\ bChan = "open"

\* no WebhookManager is built
InitNoWebhook ==
    /\ whGiven = [ URL |-> "", DebounceDuration |-> 0, MaxRetries |-> 0 ]
    /\ whConfig = ApplyDefaults(whGiven)
    /\ recentEvents = << >>
    /\ eventChan = << >>
    /\ whJobs = << >>
    /\ whSeen = << >>

\* NewMultiStreamer over adapters none of which has been called
InitMultiStreamer ==
    /\ mStarted = {}
    /\ mStopped = {}
    /\ mReceived = {}
    /\ mLast = NoMultiCall

\* NewWebSocketStreamer: not started, no clients
InitWSStreamer ==
    /\ wsStarted = FALSE
    /\ wsClients = << >>
    /\ wsSend = NoSend
    /\ wsLast = NoLast
    /\ wsFatal = FALSE

\* NewSSEStreamer: an empty event map, no connection yet
InitSSEStreamer ==
    /\ sseEvents = << >>
    /\ sseOpen = FALSE
    /\ sseId = 0
    /\ sseWritten = << >>

InitFilter ==
    /\ filter = NewEventFilter
    /\ fLast = NoCall
    /\ now = 0
    /\ InitSSEStreamer
    /\ InitWSStreamer
    /\ InitMultiStreamer
    /\ InitNoWebhook
    /\ InitBatcher
    /\ InitNoServer
    /\ InitNoRecursive
    /\ InitNoWatcher

NextFilter ==
    \/ SetIncludePatterns
    \/ SetExcludePatterns
    \/ SetIncludeEvents
    \/ SetIgnoreEvents
    \/ AddCustomFilter
    \/ CallShouldProcessEvent

SpecFilter == InitFilter /\ [][NextFilter]_vars

InitSSE ==
    /\ filter \in StreamFilters
    /\ fLast = NoCall
    /\ now = 0
    /\ InitSSEStreamer
    /\ InitWSStreamer
    /\ InitMultiStreamer
    /\ InitNoWebhook
    /\ InitBatcher
    /\ InitNoServer
    /\ InitNoRecursive
    /\ InitNoWatcher

NextSSE ==
    \/ Tick
    \/ SSESend
    \/ SSEConnect
    \/ SSERefresh

SpecSSE == InitSSE /\ [][NextSSE]_vars

InitWS ==
    /\ filter \in StreamFilters
    /\ fLast = NoCall
    /\ now = 0
    /\ InitSSEStreamer
    /\ InitWSStreamer
    /\ InitMultiStreamer
    /\ InitNoWebhook
    /\ InitBatcher
    /\ InitNoServer
    /\ InitNoRecursive
    /\ InitNoWatcher

NextWS ==
    \/ WSStart
    \/ WSHandleWebSocket
    \/ WSSendBegin
    \/ WSSendToClient
    \/ WSSendEnd
    \/ WSWriteLoop
    \/ WSReadLoopExit
    \/ WSStop

SpecWS == InitWS /\ [][NextWS]_vars

InitMulti ==
    /\ filter = NoFilter
    /\ fLast = NoCall
    /\ now = 0
    /\ InitSSEStreamer
    /\ InitWSStreamer
    /\ InitMultiStreamer
    /\ InitNoWebhook
    /\ InitBatcher
    /\ InitNoServer
    /\ InitNoRecursive
    /\ InitNoWatcher

NextMulti ==
    \/ MultiStart
    \/ MultiStop
    \/ MultiSend

SpecMulti == InitMulti /\ [][NextMulti]_vars

\* NewWebhookManager
InitWebhook ==
    /\ filter = NoFilter
    /\ fLast = NoCall
    /\ now = 0
    /\ InitSSEStreamer
    /\ InitWSStreamer
    /\ InitMultiStreamer
    /\ whGiven \in [ URL : GivenURLs, DebounceDuration : GivenDebounces,
                     MaxRetries : GivenRetries ]
    /\ whConfig = ApplyDefaults(whGiven)
    /\ recentEvents = << >>
    /\ eventChan = << >>
    /\ whJobs = << >>
    /\ whSeen = << >>
    /\ InitBatcher
    /\ InitNoServer
    /\ InitNoRecursive
    /\ InitNoWatcher

NextWebhook ==
    \/ Tick
    \/ HandleEvent
    \/ ProcessEvents
    \/ WebhookAttempt
    \/ WebhookWake

SpecWebhook == InitWebhook /\ [][NextWebhook]_vars

NextSweep ==
    \/ Tick
    \/ WebhookQuiet
    \/ HandleEvent
    \/ ProcessEvents
    \/ WebhookAttempt
    \/ WebhookWake

\* time goes on and the manager's goroutines are scheduled
LiveSweep ==
    /\ InitWebhook
    /\ [][NextSweep]_vars
    /\ WF_vars(WebhookQuiet)
    /\ WF_vars(ProcessEvents)
    /\ WF_vars(WebhookAttempt)
    /\ WF_vars(WebhookWake)

InitBatcherAlone ==
    /\ filter = NoFilter
    /\ fLast = NoCall
    /\ now = 0
    /\ InitSSEStreamer
    /\ InitWSStreamer
    /\ InitMultiStreamer
    /\ InitNoWebhook
    /\ InitBatcher
    /\ InitNoServer
    /\ InitNoRecursive
    /\ InitNoWatcher

NextBatcher ==
    \/ BatcherAdd
    \/ BatcherAddBatch
    \/ BatcherAddBatchGo
    \/ BatcherFlush
    \/ BatcherReceive

SpecBatcher == InitBatcherAlone /\ [][NextBatcher]_vars

\* the batcher with a caller of Close
NextBatcherClose ==
    \/ BatcherAdd
    \/ BatcherAddBatch
    \/ BatcherAddBatchGo
    \/ BatcherFlush
    \/ BatcherReceive
    \/ BatcherClose
    \/ BatcherSendAfterClose

SpecBatcherClose == InitBatcherAlone /\ [][NextBatcherClose]_vars

\* The goroutines of the batcher are scheduled, the sleep ends, and the
\* consumer keeps receiving from Events()
LiveBatcher ==
    /\ SpecBatcher
    /\ WF_vars(BatcherAddBatchGo)
    /\ WF_vars(BatcherFlush)
    /\ WF_vars(BatcherReceive)

\* NewWatcher over a tree in which the environment touches the paths of
\* scope: the root is recorded, its watch added or not; watcher.Add fails
\* at most failures times
InitWatcherOver(scope, given, recursive, failures) ==
    /\ fsScope = scope
    /\ fs \in SUBSET given
    /\ wRecursive \in recursive
    /\ \E ok \in IF failures > 0 THEN BOOLEAN ELSE {TRUE} :
          LET r == addDirectory({}, {}, {}, Root, ok)
          IN  /\ directories = r.directories
              /\ watches = r.watches
              /\ native = r.native
              /\ wFailuresLeft = IF ok THEN failures ELSE failures - 1
    /\ nativeEvents = << >>
    /\ wStarted = FALSE
    /\ wScheduled = 0
    /\ wEvents = << >>
    /\ wTimers = 0
    /\ wSending = << >>
    /\ wOut = << >>
    /\ wFsOps = 0
    /\ wFresh = {}
    /\ loopTodo = << >>
    /\ loopPc = "recv"

InitWatcher ==
    /\ filter = NewEventFilter
    /\ fLast = NoCall
    /\ now = 0
    /\ InitSSEStreamer
    /\ InitWSStreamer
    /\ InitMultiStreamer
    /\ InitNoWebhook
    /\ InitBatcher
    /\ InitNoServer
    /\ InitNoRecursive
    /\ InitWatcherOver({SubDir, FileG}, {SubDir}, BOOLEAN, MaxAddFailures)

NextWatcher ==
    \/ FsCreate
    \/ FsWrite
    \/ FsRemove
    \/ FsTouch
    \/ WatcherStart
    \/ WatchLoopPoll
    \/ WatchLoopEvent
    \/ WatcherFlush
    \/ WatcherReceive

SpecWatcher == InitWatcher /\ [][NextWatcher]_vars

\* a recursive watcher over a tree with the directory w/.h in it
InitHidden ==
    /\ filter = NewEventFilter
    /\ fLast = NoCall
    /\ now = 0
    /\ InitSSEStreamer
    /\ InitWSStreamer
    /\ InitMultiStreamer
    /\ InitNoWebhook
    /\ InitBatcher
    /\ InitNoServer
    /\ InitNoRecursive
    /\ InitWatcherOver({HidDir, HidFile}, {HidDir}, {TRUE}, 0)

SpecHidden == InitHidden /\ [][NextWatcher]_vars

\* the watch loop keeps running, the sleeping goroutine wakes up, the
\* consumer keeps receiving
LiveWatcher ==
    /\ SpecWatcher
    /\ WF_vars(WatcherStart)
    /\ WF_vars(WatchLoopPoll)
    /\ WF_vars(WatchLoopEvent)
    /\ WF_vars(WatcherFlush)
    /\ WF_vars(WatcherReceive)

\* the filter of "--include *.j"
IncludeJ == [NewEventFilter EXCEPT !.includePatterns = parsePatterns(<<"*", ".", "j">>)]

\* EventServer with the WebSocket streamer, up to watcher.Start: the
\* streamer is started and has no client yet
InitPipeline ==
    /\ filter = IncludeJ
    /\ fLast = NoCall
    /\ now = 0
    /\ InitSSEStreamer
    /\ wsStarted = TRUE
    /\ wsClients = << >>
    /\ wsSend = NoSend
    /\ wsLast = NoLast
    /\ wsFatal = FALSE
    /\ InitMultiStreamer
    /\ InitNoWebhook
    /\ InitBatcher
    /\ InitNoServer
    /\ InitNoRecursive
    /\ InitWatcherOver({FileC, FileJ}, {}, {TRUE}, 0)

NextPipeline ==
    \/ FsCreate
    \/ FsWrite
    \/ WatcherStart
    \/ WatchLoopPoll
    \/ WatchLoopEvent
    \/ WatcherFlush
    \/ EventLoopReceive
    \/ EventLoopNext
    \/ EventLoopSendReturns
    \/ PipelineClient
    \/ WSSendToClient
    \/ WSSendEnd
    \/ WSWriteLoop

SpecPipeline == InitPipeline /\ [][NextPipeline]_vars

\* EventServer is called
InitServer ==
    /\ filter = NoFilter
    /\ fLast = NoCall
    /\ now = 0
    /\ InitSSEStreamer
    /\ InitWSStreamer
    /\ InitMultiStreamer
    /\ InitNoWebhook
    /\ InitBatcher
    /\ InitNoRecursive
    /\ InitNoWatcher
    /\ \E given \in ServerInputs :
          srv = [ pc |-> "check", given |-> given, servers |-> << >>,
                  conns |-> [ a \in {"sse", "ws"} |-> "none" ],
                  running |-> {}, stopped |-> {}, cancelled |-> FALSE,
                  rounds |-> 0 ]

NextServer ==
    \/ SrvCheckPath
    \/ SrvNewWatcher
    \/ SrvNewWebhook
    \/ SrvStartStreamer
    \/ SrvStartLoop
    \/ SrvWatcherStart
    \/ SrvListenAndServe
    \/ SrvConnect
    \/ SrvClientLeaves
    \/ SrvCancel
    \/ SrvStop
    \/ SrvWriteLoopReturns
    \/ SrvReadLoopReturns
    \/ SrvHandleSSELoop

SpecServer == InitServer /\ [][NextServer]_vars

\* every goroutine is scheduled
LiveServer ==
    /\ SpecServer
    /\ WF_vars(SrvListenAndServe)
    /\ WF_vars(SrvStop)
    /\ WF_vars(SrvWriteLoopReturns)
    /\ WF_vars(SrvReadLoopReturns)
    /\ WF_vars(SrvHandleSSELoop)

\* NewRecursiveWatcher is called on a tree with 1..MaxFolders folders, the
\* workers are started
InitPool ==
    /\ filter = NoFilter
    /\ fLast = NoCall
    /\ now = 0
    /\ InitSSEStreamer
    /\ InitWSStreamer
    /\ InitMultiStreamer
    /\ InitNoWebhook
    /\ InitBatcher
    /\ InitNoServer
    /\ InitNoWatcher
    /\ \E n \in 1..MaxFolders :
          rw = [ pc |-> "send", folders |-> SubfoldersResult(n), sent |-> 0,
                 folderChan |-> << >>,
                 worker |-> [ w \in Workers |-> [ pc |-> "range", folder |-> "" ] ],
                 added |-> << >>, by |-> {}, failed |-> {}, Folders |-> << >> ]

NextPool ==
    \/ RwSendFolder
    \/ RwCloseChan
    \/ \E w \in Workers : RwWorkerTake(w)
    \/ \E w \in Workers : RwAddFolder(w)
    \/ \E w \in Workers : RwWorkerDone(w)
    \/ RwReturn

SpecPool == InitPool /\ [][NextPool]_vars

\* the batches the watcher has flushed and is sending to the loop
LoopEvents ==
    << [Name |-> FileJ, Op |-> {Create}, n |-> 1],
       [Name |-> FileC, Op |-> {Create}, n |-> 2],
       [Name |-> FileJ, Op |-> {Write}, n |-> 3] >>
LoopBatches ==
    { << LoopEvents >>,
      << SubSeq(LoopEvents, 1, 2), SubSeq(LoopEvents, 3, 3) >>,
      << SubSeq(LoopEvents, 1, 1), SubSeq(LoopEvents, 2, 3) >> }

\* EventServer's loop runs, with or without a filter and a webhook manager
InitEventLoop ==
    /\ filter \in {NoFilter, IncludeJ}
    /\ fLast = NoCall
    /\ now = 0
    /\ InitSSEStreamer
    /\ InitWSStreamer
    /\ InitMultiStreamer
    /\ whGiven \in [ URL : GivenURLs, DebounceDuration : GivenDebounces,
                     MaxRetries : {1} ]
    /\ whConfig = ApplyDefaults(whGiven)
    /\ recentEvents = << >>
    /\ eventChan = << >>
    /\ whJobs = << >>
    /\ whSeen = << >>
    /\ InitBatcher
    /\ InitNoRecursive
    /\ srv = [ pc |-> "loop", calls |-> << >> ]
    /\ fsScope = {}
    /\ fs = {}
    /\ native = {}
    /\ nativeEvents = << >>
    /\ wRecursive = TRUE
    /\ directories = {Root}
    /\ watches = {Root}
    /\ wStarted = TRUE
    /\ wScheduled = Len(LoopEvents)
    /\ wEvents = << >>
    /\ wTimers = 0
    /\ wSending \in LoopBatches
    /\ wOut = << >>
    /\ wFsOps = 0
    /\ wFailuresLeft = 0
    /\ wFresh = {}
    /\ loopTodo = << >>
    /\ loopPc = "recv"

NextEventLoop ==
    \/ EventLoopReceive
    \/ EventLoopDispatch
    \/ ProcessEvents
    \/ WebhookAttempt
    \/ WebhookWake

SpecEventLoop == InitEventLoop /\ [][NextEventLoop]_vars

\* NewWebSocketStreamer
InitWSChannels ==
    /\ filter = NoFilter
    /\ fLast = NoCall
    /\ now = 0
    /\ InitSSEStreamer
    /\ InitWSStreamer
    /\ InitMultiStreamer
    /\ InitNoWebhook
    /\ InitBatcher
    /\ InitNoRecursive
    /\ InitNoWatcher
    /\ srv = [ pc |-> "ws", started |-> FALSE, starts |-> 0, stops |-> 0,
               clients |-> {}, readers |-> {},
               chans |-> [ c \in ClientIds |->
                             [ made |-> FALSE, closes |-> 0, queued |-> 0 ] ],
               sending |-> FALSE, send |-> {}, stopping |-> FALSE, stop |-> {},
               panic |-> "none" ]

NextWSChannels ==
    \/ ChStart
    \/ ChHandleWebSocket
    \/ ChSendBegin
    \/ ChSendToClient
    \/ ChSendEnd
    \/ ChStopBegin
    \/ ChStopClose
    \/ ChStopEnd
    \/ ChReadLoopExit
    \/ ChWriteLoop

SpecWSChannels == InitWSChannels /\ [][NextWSChannels]_vars

\* NewWatcher has returned a watcher; its Errors() has a reader or not
InitWatcherClose ==
    /\ filter = NoFilter
    /\ fLast = NoCall
    /\ now = 0
    /\ InitSSEStreamer
    /\ InitWSStreamer
    /\ InitMultiStreamer
    /\ InitNoWebhook
    /\ InitBatcher
    /\ InitNoRecursive
    /\ InitNoWatcher
    /\ \E reader \in BOOLEAN :
          srv = [ pc |-> "close", loop |-> "none", close |-> "none",
                  events |-> 0, errors |-> 0, errorsRead |-> reader ]

NextWatcherClose ==
    \/ WcStart
    \/ WcNative
    \/ WcLoopEvent
    \/ WcLoopError
    \/ WcErrorReceived
    \/ WcCloseCall
    \/ WcLoopClose
    \/ WcCloseReturns

SpecWatcherClose == InitWatcherClose /\ [][NextWatcherClose]_vars

\* the watch loop and Close are scheduled, the select takes a case that
\* stays ready, a reader of Errors() keeps receiving
LiveWatcherClose ==
    /\ SpecWatcherClose
    /\ SF_vars(WcLoopClose)
    /\ WF_vars(WcLoopEvent)
    /\ WF_vars(WcLoopError)
    /\ WF_vars(WcErrorReceived)
    /\ WF_vars(WcCloseReturns)

----------------------------------------------------------------------------
(* Properties of the filter, under SpecFilter *)

SomeCustomFilterRejects(f, path, isDir) ==
    \E i \in 1..Len(f.customFilters) :
        /\ f.customFilters[i] # "nil"
        /\ ~ApplyCustomFilter(f.customFilters[i], path, isDir)

OpIgnored(f, op) == op \cap f.ignoreEvents # {}
OpNotIncluded(f, op) == f.includeEvents # {} /\ op \cap f.includeEvents = {}

\* C5: ShouldProcessEvent rejects an event whenever its path matches an
\* exclude pattern or a custom predicate returns false, whatever the include
\* patterns and the operation sets are.
C5_ExcludeAndPredicatesWin ==
    fLast.called =>
        ( ( \/ AnyPatternMatches(filter.excludePatterns, fLast.event.Name)
            \/ SomeCustomFilterRejects(filter, fLast.event.Name, fLast.isDir) )
          => fLast.result = FALSE )

\* C5 witness: a rejected event whose path matches an exclude pattern and
\* also an include pattern, with an operation the operation gate lets through.
C5_Witness ==
    /\ fLast.called
    /\ AnyPatternMatches(filter.excludePatterns, fLast.event.Name)
    /\ AnyPatternMatches(filter.includePatterns, fLast.event.Name)
    /\ ~OpIgnored(filter, fLast.event.Op)
    /\ ~OpNotIncluded(filter, fLast.event.Op)
    /\ fLast.result = FALSE

\* C6 as stated: ShouldProcessEvent accepts an event whenever the include
\* pattern list is empty, no exclude pattern matches and no custom predicate
\* rejects.
C6_AcceptsWhenIncludeEmpty ==
    fLast.called =>
        ( ( /\ Len(filter.includePatterns) = 0
            /\ ~AnyPatternMatches(filter.excludePatterns, fLast.event.Name)
            /\ ~SomeCustomFilterRejects(filter, fLast.event.Name, fLast.isDir) )
          => fLast.result = TRUE )

\* C6 amended: ShouldProcessEvent accepts an event whenever the include
\* pattern list is empty, no exclude pattern matches, no custom predicate
\* rejects, and the operation gate lets the event through (no bit of its
\* operation set is ignored, and the include-operation set is empty or holds
\* one of its bits).
C6_AcceptsWhenIncludeEmptyAndOpPasses ==
    fLast.called =>
        ( ( /\ Len(filter.includePatterns) = 0
            /\ ~AnyPatternMatches(filter.excludePatterns, fLast.event.Name)
            /\ ~SomeCustomFilterRejects(filter, fLast.event.Name, fLast.isDir)
            /\ ~OpIgnored(filter, fLast.event.Op)
            /\ ~OpNotIncluded(filter, fLast.event.Op) )
          => fLast.result = TRUE )

\* C6 witness: an accepted event with an empty include list, a non-empty
\* exclude list, a custom predicate and both operation sets configured.
C6_Witness ==
    /\ fLast.called
    /\ Len(filter.includePatterns) = 0
    /\ Len(filter.excludePatterns) > 0
    /\ Len(filter.customFilters) > 0
    /\ filter.ignoreEvents # {}
    /\ filter.includeEvents # {}
    /\ fLast.result = TRUE

\* C7: an event with a bit in the ignore set is rejected, also when another
\* of its bits is in the include set; with a non-empty include set an event
\* with no bit in it is rejected.
C7_OperationGate ==
    fLast.called =>
        /\ OpIgnored(filter, fLast.event.Op) => fLast.result = FALSE
        /\ OpNotIncluded(filter, fLast.event.Op) => fLast.result = FALSE

\* C7 witness: a rejected event with one bit ignored and another included,
\* whose path passes the path gate and the custom predicates.
C7_Witness ==
    /\ fLast.called
    /\ OpIgnored(filter, fLast.event.Op)
    /\ fLast.event.Op \cap filter.includeEvents # {}
    /\ ShouldIncludePath(filter, fLast.event.Name)
    /\ ~SomeCustomFilterRejects(filter, fLast.event.Name, fLast.isDir)
    /\ fLast.result = FALSE

\* C7 second case reached: an event rejected only because none of its bits
\* is in the non-empty include set.
C7_WitnessNotIncluded ==
    /\ fLast.called
    /\ ~OpIgnored(filter, fLast.event.Op)
    /\ OpNotIncluded(filter, fLast.event.Op)
    /\ ShouldIncludePath(filter, fLast.event.Name)
    /\ ~SomeCustomFilterRejects(filter, fLast.event.Name, fLast.isDir)
    /\ fLast.result = FALSE

----------------------------------------------------------------------------
(* Properties of the SSE streamer, under SpecSSE *)

\* C1: in every refresh cycle at most one frame is written per distinct
\* path, whatever the pending map holds and in whatever arrival order.
C1_OneFramePerPathPerCycle ==
    \A i, j \in 1..Len(sseWritten) :
        i # j => sseWritten[i].data # sseWritten[j].data

----------------------------------------------------------------------------
(* Properties of the WebSocket streamer, under SpecWS *)

\* Send is at the loop and can take its next step, however full the
\* clients' channels are
C4_SendCanProceed ==
    (wsSend.pc = "iter" /\ ~wsFatal) => ENABLED (WSSendToClient \/ WSSendEnd)

\* The step of Send's loop that deals with client c: the message is appended
\* to c's channel if it has room and dropped if not, no other channel
\* changes, and the call goes on
C4_VisitStep(c) ==
    ( /\ wsSend.pc = "iter"
      /\ c \in wsSend.todo
      /\ ~(wsSend'.pc = "iter" /\ c \in wsSend'.todo) )
    => /\ wsSend'.pc = "iter"
       /\ wsClients'[c] = IF Len(wsClients[c]) < SendChanCap
                          THEN Append(wsClients[c], wsSend.data)
                          ELSE wsClients[c]
       /\ \A d \in DOMAIN wsClients \ {c} : wsClients'[d] = wsClients[d]

\* The step in which Send returns: it returns nil, having dealt with every
\* client that was registered when its loop began
C4_ReturnStep ==
    (wsSend.pc = "iter" /\ wsSend'.pc = "idle")
    => /\ wsLast'.err = "nil"
       /\ wsSend.atStart \subseteq (wsLast'.sent \cup wsLast'.dropped)

\* C4: Send never blocks and never fails because of a client whose channel
\* is full: the message is dropped for that client only, and every other
\* registered client with room gets it from the same call.
C4_FullClientIsolated ==
    /\ []C4_SendCanProceed
    /\ [][C4_ReturnStep /\ \A c \in ClientIds : C4_VisitStep(c)]_vars

\* C4 witness: a Send has returned nil after dropping the message for a
\* full client and enqueuing it for another client.
C4_Witness ==
    /\ wsLast.called
    /\ ~wsLast.filtered
    /\ wsLast.dropped # {}
    /\ wsLast.sent # {}
    /\ wsLast.err = "nil"

\* the operation a receiver reads from the operation member
OpOfName(name) ==
    CASE name = "create" -> Create
      [] name = "write"  -> Write
      [] name = "remove" -> Remove
      [] name = "rename" -> Rename
      [] name = "chmod"  -> Chmod
      [] OTHER           -> "none"

\* C10: the message Send enqueues for an event with a non-empty operation
\* set carries the event's path and an operation member that is one of
\* create, write, remove, rename, chmod and names a bit of the event's set.
C10_WireRoundTrip ==
    (wsLast.called /\ ~wsLast.filtered /\ wsLast.sent # {} /\ wsLast.event.Op # {})
    => /\ wsLast.data.path = wsLast.event.Name
       /\ wsLast.data.operation \in {"create", "write", "remove", "rename", "chmod"}
       /\ OpOfName(wsLast.data.operation) \in wsLast.event.Op

----------------------------------------------------------------------------
(* Properties of the MultiStreamer, under SpecMulti *)

\* the failing adapters that come first and last in list order
FirstFailing(failing) == CHOOSE i \in failing : \A j \in failing : i <= j
LastFailing(failing)  == CHOOSE i \in failing : \A j \in failing : i >= j

\* C8: each of Start, Stop and Send invokes every adapter of the list,
\* whether or not an earlier adapter returned an error.
C8_EveryAdapterInvoked ==
    mLast.called => mLast.invoked = Streamers

\* C9 as stated: the error returned by Start, Stop or Send is the first
\* error encountered in list order, and nil exactly when no adapter failed.
C9_FirstErrorReturned ==
    mLast.called =>
        mLast.err = IF mLast.failing = {} THEN Nil ELSE FirstFailing(mLast.failing)

\* C9 amended: Start returns the first error encountered in list order;
\* Stop and Send return the last error encountered in list order; each
\* returns nil exactly when no adapter that it invoked returned an error.
C9_FirstOrLastErrorReturned ==
    mLast.called =>
        LET failed == mLast.failing \cap Range(mLast.invoked)
        IN  /\ (mLast.err = Nil) <=> (failed = {})
            /\ (failed # {} /\ mLast.call = "Start")
                  => mLast.err = FirstFailing(failed)
            /\ (failed # {} /\ mLast.call \in {"Stop", "Send"})
                  => mLast.err = LastFailing(failed)

\* C9 witness: a Stop in which two adapters failed has returned the error
\* of the later one.
C9_Witness ==
    /\ mLast.called
    /\ mLast.call = "Stop"
    /\ Cardinality(mLast.failing) >= 2
    /\ mLast.err = LastFailing(mLast.failing)
    /\ mLast.err # FirstFailing(mLast.failing)

----------------------------------------------------------------------------
(* WebhookManager: debounce and retries *)

\* the events of whSeen that started a sendWebhook, as indices into whSeen
AcceptedSeen == { k \in 1..Len(whSeen) : ~whSeen[k].debounced }

\* processEvents starts exactly one sendWebhook per event it does not
\* suppress, in order: the k-th call carries the k-th accepted event's path
ChainsAreAcceptedEvents ==
    whConfig.DebounceDuration > 0 =>
        /\ Len(whJobs) = Cardinality(AcceptedSeen)
        /\ \A k \in AcceptedSeen :
              whJobs[Cardinality({ m \in AcceptedSeen : m <= k })].payload.path
                 = whSeen[k].path

\* C2: among the events for one path that the dispatcher processes within
\* one debounce window (less than DebounceDuration apart), at most one starts
\* a delivery chain (sendWebhook); every other one is suppressed.
C2_OneChainPerWindow ==
    /\ ChainsAreAcceptedEvents
    /\ \A k, m \in 1..Len(whSeen) :
          ( /\ k < m
            /\ whSeen[k].path = whSeen[m].path
            /\ whSeen[m].time - whSeen[k].time < whConfig.DebounceDuration )
          => (whSeen[k].debounced \/ whSeen[m].debounced)

\* Two events for one path were processed inside one window, at different
\* times: the first started the only chain, the second was suppressed.
C2_Witness ==
    /\ whConfig.DebounceDuration > 0
    /\ Len(whSeen) = 2
    /\ whSeen[1].path = whSeen[2].path
    /\ whSeen[1].time < whSeen[2].time
    /\ whSeen[2].time - whSeen[1].time < whConfig.DebounceDuration
    /\ ~whSeen[1].debounced
    /\ whSeen[2].debounced
    /\ Len(whJobs) = 1

\* sendWebhook has returned and none of its attempts got a 2xx status
ChainFailed(j) == whJobs[j].pc = "done" /\ whJobs[j].last # "ok"

\* C3: for every configured MaxRetries and every accepted event, when every
\* attempt fails (a non-2xx status or a transport error), the endpoint
\* receives exactly MaxRetries + 1 attempts for the event, and none after the
\* chain is over.  An attempt that finds no connection cannot be received,
\* so the chains looked at are those in which the endpoint could be reached
\* every time.
C3_EndpointReceivesMaxRetriesPlusOne ==
    \A j \in 1..Len(whJobs) :
        (ChainFailed(j) /\ ~whJobs[j].refused)
            => whJobs[j].received = whGiven.MaxRetries + 1

\* What the loop does do: MaxRetries + 1 calls of client.Do per failed chain,
\* of which at most one reaches the endpoint.
SendWebhookCallsAndReceipts ==
    \A j \in 1..Len(whJobs) :
        /\ whJobs[j].attempts <= whConfig.MaxRetries + 1
        /\ whJobs[j].received <= 1
        /\ ChainFailed(j) => whJobs[j].attempts = whConfig.MaxRetries + 1

----------------------------------------------------------------------------
(* SSEStreamer: purging of the pending-event map *)

\* no entry of the map is older than maxAge
NoStaleEntry(events, clock) == \A t \in DOMAIN events : clock - t <= MaxAge

\* every frame of the cycle carries the name of an entry that is not stale
FramesAreFresh(frames, events, clock) ==
    \A k \in 1..Len(frames) :
        \E t \in DOMAIN events :
            events[t].Name = frames[k].data /\ clock - t <= MaxAge

\* What the purges achieve: when Send or a cycle of handleSSE releases the
\* lock no stale entry is left, and a cycle writes no stale entry.
PurgedOnRelease ==
    /\ (SSESend \/ SSERefresh) => NoStaleEntry(sseEvents', now')
    /\ SSERefresh => FramesAreFresh(sseWritten', sseEvents', now')

\* C16: stale entries are purged before every read by handleSSE and before
\* every insert by Send (the map Send inserts into holds no stale entry), so
\* that no stale entry is written to a client or left when the lock is
\* released.
C16_PurgedBeforeReadAndInsert ==
    [][ /\ SSESend => NoStaleEntry(sseEvents, now)
        /\ PurgedOnRelease ]_vars

\* C16 as the code has it: handleSSE purges before it reads, Send purges
\* right after it inserts, inside the same critical section; no stale entry
\* is written to a client or left when the lock is released.
C16_PurgedBeforeReadAfterInsert ==
    [][ /\ SSESend => \E ev \in { [Name |-> q, Op |-> o] : q \in StreamPaths, o \in SSEOps } :
                         sseEvents' = RemoveOldEvents(
                            [ t \in DOMAIN sseEvents \cup {now} |->
                                IF t = now THEN ev ELSE sseEvents[t] ], MaxAge, now)
        /\ PurgedOnRelease ]_vars

\* An entry written in an earlier cycle has since become stale and is gone:
\* the client has two frames, the map only the entry of the current tick.
C16_Witness ==
    /\ sseOpen
    /\ now = MaxAge + 1
    /\ sseId = 2
    /\ Len(sseWritten) = 1
    /\ DOMAIN sseEvents = {now}

\* C17: RemoveOldEvents(events, maxAge) deletes exactly the entries whose
\* timestamp is earlier than now - maxAge (whose age exceeds maxAge) and
\* leaves every other entry unchanged.
C17_RemovesExactlyTheOld ==
    LET after == RemoveOldEvents(sseEvents, MaxAge, now)
    IN  /\ \A t \in DOMAIN sseEvents :
              (t \in DOMAIN after) <=> (now - t <= MaxAge)
        /\ DOMAIN after \subseteq DOMAIN sseEvents
        /\ \A t \in DOMAIN after : after[t] = sseEvents[t]

\* The map holds an entry older than maxAge and one exactly maxAge old
C17_Witness ==
    /\ \E t \in DOMAIN sseEvents : now - t > MaxAge
    /\ \E t \in DOMAIN sseEvents : now - t = MaxAge

----------------------------------------------------------------------------
(* EventBatcher: flushing *)

\* the batches that processEvents has taken from the slice so far
FlushedBatches == bOut \o bSending

\* how often the event numbered k occurs in a sequence of events
OccurrencesIn(events, k) ==
    Cardinality({ j \in 1..Len(events) : events[j].id = k })

\* how often the event numbered k occurs in the flushed batches
OccurrencesFlushed(k) ==
    LET RECURSIVE Sum(_)
        Sum(n) == IF n = 0 THEN 0
                  ELSE OccurrencesIn(FlushedBatches[n], k) + Sum(n - 1)
    IN  Sum(Len(FlushedBatches))

\* C13: under any interleaving of Add, AddBatch and timer expiry, every
\* event handed to the batcher is in at most one flushed batch and, until
\* it is flushed, in the pending slice: none is lost, none is flushed twice,
\* and events repeating a path are all kept. A flush takes the whole slice
\* and leaves it empty.
C13_EveryEventInOneBatch ==
    /\ [](\A k \in 1..bAdded :
             OccurrencesIn(bEvents, k) + OccurrencesFlushed(k) = 1)
    /\ [][BatcherFlush =>
             /\ bEvents' = << >>
             /\ bEvents # << >> => FlushedBatches' = Append(FlushedBatches, bEvents)
         ]_vars

\* All the events have been received, in more than one batch, and one batch
\* holds two events for the same path.
C13_Witness ==
    /\ bAdded = MaxAdded
    /\ bEvents = << >>
    /\ bSending = << >>
    /\ Len(bOut) >= 2
    /\ \E n \in 1..Len(bOut) : \E j, k \in 1..Len(bOut[n]) :
          j < k /\ bOut[n][j].Name = bOut[n][k].Name

\* Add and AddBatch arm a timer only when the slice was empty before
ArmedOnlyWhenEmpty ==
    /\ (BatcherAdd /\ bTimers' > bTimers) => bEvents = << >>
    /\ (BatcherAddBatch /\ bStarting' > bStarting) => bEvents = << >>

\* C14: a flush timer is armed by Add or AddBatch only when the pending
\* slice was empty before the call; in every reachable state at most one
\* timer that has not drained the slice exists, and one exists exactly when
\* the pending slice is not empty.
C14_OneTimerIffPending ==
    /\ [][ArmedOnlyWhenEmpty]_vars
    /\ [](bTimers <= 1 /\ (bTimers = 1 <=> bEvents # << >>))

\* C14, counting the timer that an AddBatch call which found the slice
\* empty has yet to start, its lock already released.
C14_OneTimerOrStartIffPending ==
    /\ [][ArmedOnlyWhenEmpty]_vars
    /\ [](/\ bTimers + bStarting <= 1
          /\ (bTimers + bStarting = 1 <=> bEvents # << >>))

\* AddBatch has released the lock and not yet started its timer; an event
\* added meanwhile found the slice occupied and armed nothing.
C14_Witness ==
    /\ bStarting = 1
    /\ bTimers = 0
    /\ Len(bEvents) >= 2

\* the event numbered k has been received from Events()
Received(k) ==
    \E n \in 1..Len(bOut) : OccurrencesIn(bOut[n], k) = 1

\* C15: every event added to the batcher, a lone one too, is eventually
\* received in a batch from the Events channel, once the delay is over and
\* provided the consumer keeps receiving.
C15_EveryEventEmitted ==
    \A k \in 1..MaxAdded : (bAdded >= k) ~> Received(k)

\* A single event was added and nothing after it; it came out as a batch
C15_Witness ==
    /\ bAdded = 1
    /\ Len(bOut) = 1
    /\ Len(bOut[1]) = 1

----------------------------------------------------------------------------
(* Watcher: the watch set, under SpecWatcher and LiveWatcher *)

\* C18: when the watch loop has handled a Remove event for a directory the
\* watcher tracks, the directory is in neither directories nor watches and
\* has no native watch.
C18_RemovedDirectoryDeregistered ==
    [][ ( /\ WatchLoopEvent
          /\ Head(nativeEvents).Name = SubDir
          /\ Remove \in Head(nativeEvents).Op
          /\ SubDir \in directories )
        => ( /\ SubDir \notin directories'
             /\ SubDir \notin watches'
             /\ SubDir \notin native' ) ]_vars

\* C19: every path in directories or in watches has a native watch (native
\* is a set: a path has at most one).
C19_TrackedPathsHaveNativeWatch ==
    \A p \in directories \cup watches : p \in native

\* C20: for a recursive watcher, a subdirectory that exists after Start
\* comes to be watched (or is removed again), and a file created in a
\* watched directory is delivered in a batch received from Events(),
\* whatever native events keep arriving.
C20_SubdirWatchedAndFileDelivered ==
    /\ (wRecursive /\ wStarted /\ SubDir \in fs)
          ~> ((SubDir \in watches /\ SubDir \in native) \/ SubDir \notin fs)
    /\ (FileG \in wFresh) ~> (FileG \notin wFresh)

----------------------------------------------------------------------------
(* EventServer: what reaches a WebSocket client, under SpecPipeline *)

\* how many messages for path wait in the queue of client c
MessagesFor(c, path) ==
    Cardinality({ k \in 1..Len(wsClients[c]) : wsClients[c][k].path = path })

\* the events of a batch that are about path
EventsOf(batch, path) == SelectSeq(batch, LAMBDA e : e.Name = path)

\* The loop is done with a batch that holds everything scheduled so far,
\* and what it holds about a.j is a Create followed by two Writes
CreateWriteWrite ==
    /\ loopPc = "recv"
    /\ wEvents = << >>
    /\ wSending = << >>
    /\ Len(wOut) = wScheduled
    /\ LET js == EventsOf(wOut, FileJ)
       IN  /\ Len(js) = 3
           /\ js[1].Op = {Create}
           /\ js[2].Op = {Write}
           /\ js[3].Op = {Write}

\* C11: with the include pattern *.j, no message for a.c is ever in a
\* client's queue, and when a Create and two Writes of a.j came in one
\* batch no client's queue holds more than one message for a.j.
C11_OneMessageForThePath ==
    \A c \in DOMAIN wsClients :
        /\ MessagesFor(c, FileC) = 0
        /\ CreateWriteWrite => MessagesFor(c, FileJ) <= 1

\* arrival numbers go up along a sequence of scheduled events
Increasing(events) ==
    \A i, j \in 1..Len(events) : i < j => events[i].n < events[j].n

\* what the loop has left of a batch is the end of that batch
IsSuffix(rest, batch) ==
    /\ Len(rest) <= Len(batch)
    /\ rest = SubSeq(batch, Len(batch) - Len(rest) + 1, Len(batch))

\* C12: the pending slice, every flushed batch and the batch the loop
\* works on are in arrival order; the loop goes through its batch from
\* the front and the event inside Send is the first it has left; and a
\* message that enters a client's queue is the message of that event and
\* goes to the tail of the queue.
C12_BatchOrderKept ==
    /\ [](/\ Increasing(wEvents)
          /\ \A k \in 1..Len(wSending) : Increasing(wSending[k])
          /\ Increasing(wOut)
          /\ IsSuffix(loopTodo, wOut)
          /\ wsSend.pc = "iter" =>
                /\ loopPc = "send"
                /\ wsSend.event = Plain(Head(loopTodo)))
    /\ [][ \A c \in DOMAIN wsClients \cap DOMAIN wsClients' :
             Len(wsClients'[c]) > Len(wsClients[c]) =>
                 wsClients'[c] =
                     Append(wsClients[c], WSMessage(Plain(Head(loopTodo)), now)) ]_vars

\* A batch of a Create and a Write has gone through the loop and the
\* client's queue holds the two messages, in that order
C12_Witness ==
    /\ loopPc = "recv"
    /\ Len(wOut) = 2
    /\ wOut[1].Op = {Create}
    /\ wOut[2].Op = {Write}
    /\ \E c \in DOMAIN wsClients :
          /\ Len(wsClients[c]) = 2
          /\ wsClients[c][1].operation = "create"
          /\ wsClients[c][2].operation = "write"

----------------------------------------------------------------------------
(* Watcher: what a walk does, under SpecWatcher *)

\* the tree the walks go over
TreePaths == { WalkOrder[k] : k \in 1..Len(WalkOrder) }

\* the events a step has appended to the pending slice
Appended == SubSeq(wEvents', Len(wEvents) + 1, Len(wEvents'))

\* how many of the events are about path
CountFor(events, path) ==
    Cardinality({ k \in 1..Len(events) : events[k].Name = path })

\* a step of Start or of the poll branch of the watch loop
IsWalk == WatcherStart \/ WatchLoopPoll

\* C21: the events a walk schedules are Create events, one for each file
\* that the walk has added to watches and none for any other path:
\* none for a directory, none for a path that was in watches before.
C21_OneCreatePerNewFile ==
    [][ IsWalk =>
          /\ Len(wEvents') >= Len(wEvents)
          /\ \A k \in 1..Len(Appended) : Appended[k].Op = {Create}
          /\ \A p \in TreePaths :
                CountFor(Appended, p) =
                    IF p \in watches' \ watches /\ ~isDirectory(p) THEN 1 ELSE 0 ]_vars

\* Start has walked a tree in which d and d/g were there: both are watched
\* now and the one event scheduled is the Create of d/g
C21_Witness ==
    /\ wStarted
    /\ wFsOps = 1
    /\ nativeEvents = << >>
    /\ {SubDir, FileG} \subseteq watches
    /\ wScheduled = 1
    /\ Len(wEvents) = 1
    /\ wEvents[1].Name = FileG
    /\ wEvents[1].Op = {Create}

\* the paths a walk from this state would try to register
Candidates == AddCandidates(directories, wRecursive, watches)

\* C29: in a walk during which Add failed, every other path the walk came
\* to was registered; a path whose Add failed is not in watches and no
\* event is scheduled for it; and it is among the paths the next poll
\* tries to register.
C29_FailedAddSkippedAndRetried ==
    [][ (IsWalk /\ wFailuresLeft' < wFailuresLeft) =>
          LET failed == Candidates \ watches'
          IN  /\ Cardinality(failed) = wFailuresLeft - wFailuresLeft'
              /\ native' = native \cup (Candidates \ failed)
              /\ \A p \in failed :
                    /\ CountFor(Appended, p) = 0
                    /\ p \in AddCandidates(directories', wRecursive', watches') ]_vars

\* A walk has registered d/g although the Add for d failed in it; d is
\* still to be registered
C29_Witness ==
    /\ wStarted
    /\ wFailuresLeft = 0
    /\ Root \in watches
    /\ FileG \in watches
    /\ SubDir \notin watches
    /\ SubDir \in Candidates

----------------------------------------------------------------------------
(* Watcher: ignored directories, under SpecHidden *)

\* ShouldIgnoreFile: the name starts with one of ignorePrefixes
ShouldIgnoreFile(name) ==
    HasPrefix(name, <<".">>) \/ HasPrefix(name, <<"_">>)

\* p is an ignored directory under the root or lies in one
InIgnoredSubtree(p) ==
    \/ p \in Dirs \ {Root} /\ ShouldIgnoreFile(Base(p))
    \/ ParentOf(p) # Root /\ ShouldIgnoreFile(Base(ParentOf(p)))

\* C22: no directory whose base name starts with "." or "_", and nothing
\* below it, is in directories or watches or has a native watch.
C22_IgnoredNeverRegistered ==
    \A p \in directories \cup watches \cup native : ~InIgnoredSubtree(p)

----------------------------------------------------------------------------
(* WebSocketStreamer: the locks around the client registry, under SpecWS *)

\* C25: while a Send iterates over the registry no client is registered,
\* deregistered or reset: the set of registered clients does not change.
C25_RegistryExclusiveWithSend ==
    [][ wsSend.pc = "iter" => DOMAIN wsClients' = DOMAIN wsClients ]_vars

----------------------------------------------------------------------------
(* WebhookManager: the end of a delivery chain, under SpecWebhook *)

\* C30: a sendWebhook whose last client.Do got a 2xx status is over, and
\* nothing about it changes any more: no further attempt, no further sleep.
C30_SuccessEndsTheChain ==
    /\ [](\A j \in 1..Len(whJobs) :
             whJobs[j].last = "ok" => whJobs[j].pc = "done")
    /\ [][ \A j \in 1..Len(whJobs) :
             whJobs[j].last = "ok" => whJobs'[j] = whJobs[j] ]_vars

\* A chain has ended on the 2xx status of its second attempt with retries
\* to spare
C30_Witness ==
    \E j \in 1..Len(whJobs) :
        /\ whJobs[j].last = "ok"
        /\ whJobs[j].attempts = 2
        /\ whJobs[j].received = 1
        /\ whJobs[j].i < whConfig.MaxRetries
        /\ whJobs[j].pc = "done"

----------------------------------------------------------------------------
(* WebhookManager: the debounce map, under LiveSweep *)

\* the entry of path in the debounce map is older than ten windows
StaleEntry(path) ==
    /\ path \in DOMAIN recentEvents
    /\ now - recentEvents[path] > whConfig.DebounceDuration * CleanupFactor

\* C27: an entry of the debounce map that is older than ten debounce
\* windows is eventually gone from the map.
C27_StaleEntriesEvicted ==
    \A path \in { ev.Name : ev \in WHEvents } :
        StaleEntry(path) ~> (path \notin DOMAIN recentEvents)

----------------------------------------------------------------------------
(* EventServer: setup and shutdown, under SpecServer and LiveServer *)

\* C23: when the root is missing or is no directory, or fsnotify.NewWatcher
\* fails, EventServer gets no further than the exit and nothing runs: no
\* goroutine, no server of a streamer.
C23_FatalSetupStartsNothing ==
    (srv.given.root # "dir" \/ ~srv.given.facility) =>
        /\ srv.pc \in {"check", "newWatcher", "exited"}
        /\ srv.running = {}
        /\ DOMAIN srv.servers = {}

\* every ListenAndServe of the streamers has bound the address or failed
ListenersSettled ==
    /\ srv.pc = "running"
    /\ srv.stopped = {}
    /\ \A a \in DOMAIN srv.servers : srv.servers[a] # "starting"

\* C26: with stream method "both", once EventServer is running and the
\* listeners have settled, the SSE server and the WebSocket server both
\* serve.
C26_BothEndpointsServed ==
    (srv.given.method = "both" /\ ListenersSettled) =>
        \A a \in {"sse", "ws"} : srv.servers[a] = "serving"

\* the goroutines that serve clients
PerClient == {"sseHandler", "wsWriter", "wsReader"}

\* C24: after the cancellation every streamer's Stop has run and its
\* listener is closed, no goroutine serving a client is left and no
\* client connection is open.
C24_ShutdownCompletes ==
    srv.cancelled ~>
        /\ \A a \in DOMAIN srv.servers :
              /\ a \in srv.stopped
              /\ srv.servers[a] \in {"closed", "failed"}
              /\ srv.conns[a] # "open"
        /\ srv.running \cap PerClient = {}

----------------------------------------------------------------------------
(* NewRecursiveWatcher, under SpecPool *)

\* how often x is in the sequence q
Occurrences(q, x) == Cardinality({ i \in 1..Len(q) : q[i] = x })

\* C28: when NewRecursiveWatcher has returned, the Folders channel holds
\* each folder whose Add succeeded exactly once and no other folder, and
\* Add was called once for every folder Subfolders found.
C28_OneNotificationPerAddedFolder ==
    rw.pc = "returned" =>
        \A i \in 1..Len(rw.folders) :
            LET folder == rw.folders[i]
            IN  /\ Occurrences(rw.added, folder) + (IF folder \in rw.failed THEN 1 ELSE 0) = 1
                /\ Occurrences(rw.Folders, folder) = Occurrences(rw.added, folder)

\* returned with all the folders, one Add failed, both workers added one
C28_Witness ==
    /\ rw.pc = "returned"
    /\ Len(rw.folders) = MaxFolders
    /\ Cardinality(rw.failed) = 1
    /\ rw.by = Workers
    /\ Len(rw.Folders) = MaxFolders - 1

----------------------------------------------------------------------------
(* WebhookManager: the producer's side of HandleEvent, under SpecWebhook *)

\* C31: HandleEvent never keeps its caller: no sendWebhook, with its
\* client.Do calls and its sleeps between retries, runs inside a HandleEvent
\* call; all of them run on goroutines of their own.
C31_DeliveryOffTheProducer ==
    \A j \in 1..Len(whJobs) : whJobs[j].pc # "done" => ~whJobs[j].sync

----------------------------------------------------------------------------
(* EventServer: the loop's calls, under SpecEventLoop *)

\* how many calls of an operation the loop has made for the event numbered n
CallsOf(to, n) ==
    Cardinality({ i \in 1..Len(srv.calls) :
                    srv.calls[i].to = to /\ srv.calls[i].n = n })

\* the filter's answers for the event numbered n
FilterSaid(n) ==
    { srv.calls[i].result : i \in { k \in 1..Len(srv.calls) :
          srv.calls[k].to = "ShouldProcessEvent" /\ srv.calls[k].n = n } }

\* C32: for every event of a batch the loop has worked on: if the filter
\* rejected it, neither streamer.Send nor HandleEvent was called for it; if
\* the filter let it pass (or there is no filter), Send was called exactly
\* once and, where there is a webhook manager, HandleEvent exactly once,
\* whatever Send returned.  No call is made for an event not yet reached.
C32_EachSinkCalledOncePerAcceptedEvent ==
    \A n \in 1..Len(LoopEvents) :
        /\ CallsOf("ShouldProcessEvent", n) <= 1
        /\ FilterSaid(n) \subseteq {"false"} =>
              CallsOf("Send", n) = 0 /\ CallsOf("HandleEvent", n) = 0
        /\ FilterSaid(n) = {"true"} =>
              /\ CallsOf("Send", n) = 1
              /\ CallsOf("HandleEvent", n) = (IF HasWebhookManager THEN 1 ELSE 0)

\* all three events are done: one rejected, one whose Send returned an error
\* and whose HandleEvent was called all the same
C32_Witness ==
    /\ HasWebhookManager
    /\ loopPc = "recv"
    /\ wSending = << >>
    /\ FilterSaid(2) = {"false"}
    /\ \E i \in 1..Len(srv.calls) :
          /\ srv.calls[i] = [ to |-> "Send", n |-> 3, result |-> "error" ]
          /\ i < Len(srv.calls)
          /\ srv.calls[i + 1].to = "HandleEvent"
          /\ srv.calls[i + 1].n = 3

----------------------------------------------------------------------------
(* WebSocketStreamer: closed channels, under SpecWSChannels *)

\* C33: whatever the interleaving of Start, Send, Stop, handleWebSocket,
\* readLoop and writeLoop, Send never sends on a SendChan that has been
\* closed and Stop never closes a SendChan a second time (either would be a
\* panic), and no channel has been closed more than once.
C33_NoSendAfterCloseNoDoubleClose ==
    /\ srv.panic \notin {"send on closed channel", "close of closed channel"}
    /\ \A c \in ClientIds : srv.chans[c].closes <= 1

\* Stop has closed one client's channel, the streamer was started again, and
\* a Send has put a message on the channel of a client that came later
C33_Witness ==
    /\ srv.panic = "none"
    /\ srv.starts = 2
    /\ srv.started
    /\ \E c, d \in ClientIds :
          /\ srv.chans[c].closes = 1
          /\ d \in srv.clients
          /\ srv.chans[d].queued > 0

----------------------------------------------------------------------------
(* SSEStreamer: what Send and the refresh cycles do to a stored event *)

\* the entries of the pending map that are not older than maxAge
Fresh(events, clock) == { t \in DOMAIN events : clock - t <= MaxAge }

\* C34: Send overwrites no pending event: after it the map holds every
\* entry that was pending and has not aged out, with its event, and one
\* entry more, also when an entry has the current time as its key.
C34_SendKeepsPendingEvents ==
    [][ SSESend =>
          /\ \A t \in Fresh(sseEvents, now) :
                t \in DOMAIN sseEvents' /\ sseEvents'[t] = sseEvents[t]
          /\ Cardinality(DOMAIN sseEvents') =
                Cardinality(Fresh(sseEvents, now)) + 1 ]_vars

\* C35: a stored event is written to an open connection in at most one
\* refresh cycle: a cycle writes no frame for a map entry for which the
\* cycle before it on the same connection wrote the same frame data.
C35_StoredEventWrittenInOneCycle ==
    [][ SSERefresh =>
          \A i \in 1..Len(sseWritten'), j \in 1..Len(sseWritten) :
              ~( /\ sseWritten'[i].key = sseWritten[j].key
                 /\ sseWritten'[i].data = sseWritten[j].data
                 /\ sseEvents'[sseWritten'[i].key] = sseEvents[sseWritten[j].key] ) ]_vars

----------------------------------------------------------------------------
(* EventBatcher: Close, under SpecBatcherClose; the order of the batches *)

\* C36: Close is safe with a flush pending: whatever the interleaving of
\* Add, AddBatch, the end of the sleep and Close, no processEvents sends a
\* batch on the output channel after Close has closed it.
C36_NoSendAfterClose == bChan # SendOnClosed

\* the ids of the events of the batches, in the order of the batches
RECURSIVE IdsOf(_)
IdsOf(batches) ==
    IF batches = << >> THEN << >>
    ELSE [ k \in 1..Len(Head(batches)) |-> Head(batches)[k].id ] \o IdsOf(Tail(batches))

\* C37: the consumer of Events() receives the batches in the order in which
\* they were flushed: the events it has received are in the order in which
\* they were handed in, across batches.
C37_BatchesInFlushOrder ==
    \A i, j \in 1..Len(IdsOf(bOut)) : i < j => IdsOf(bOut)[i] < IdsOf(bOut)[j]

----------------------------------------------------------------------------
(* Watcher: one Create per created file, under SpecWatcher *)

\* a Create event for the path is scheduled and not yet received: it is in
\* the pending slice or in a batch on its way to the consumer
CreateScheduled(p) ==
    \/ \E k \in 1..Len(wEvents) : wEvents[k].Name = p /\ Create \in wEvents[k].Op
    \/ \E b \in 1..Len(wSending) : \E k \in 1..Len(wSending[b]) :
          wSending[b][k].Name = p /\ Create \in wSending[b][k].Op

\* C39: for a file created after its directory was watched and whose native
\* Create event the watch loop has scheduled, a poll schedules no Create
\* event of its own.
C39_NoSecondCreateFromPoll ==
    [][ \A p \in TreePaths \ Dirs :
          (WatchLoopPoll /\ p \in wFresh /\ p \in fs /\ CreateScheduled(p))
             => CountFor(Appended, p) = 0 ]_vars

----------------------------------------------------------------------------
(* Watcher: Close, under LiveWatcherClose *)

\* C38: a call of Close returns, in whatever state the watcher is: also
\* when Start was never called, and when the watch loop is blocked sending
\* an error on the Errors channel that nobody reads.
C38_CloseReturns ==
    (srv.close = "sendClose") ~> (srv.close = "returned")

====
